---- MODULE Spec2Model ----
(***************************************************************************)
(* Model of random/random-csprng.c (libgcrypt "classic" CSPRNG): the       *)
(* entropy pool, the add / mix / extract protocol, the seed file and the   *)
(* pool mutex.  Build modelled: 64-bit little-endian POSIX (LP64) with     *)
(* gettimeofday and getrusage, no fast gather module.                      *)
(***************************************************************************)
EXTENDS Integers, Sequences, FiniteSets, TLC

(* ----------------------------------------------------------------------- *)
(* Program constants                                                       *)
(* ----------------------------------------------------------------------- *)
BLOCKLEN == 64
DIGESTLEN == 20
POOLBLOCKS == 30
POOLSIZE == POOLBLOCKS * DIGESTLEN
SIZEOF_UNSIGNED_LONG == 8
POOLWORDS == POOLSIZE \div SIZEOF_UNSIGNED_LONG
\* one byte of ADD_VALUE (0xa5 repeated over the word)
ADD_VALUE_BYTE == 165
\* (size_t)-1, the value an unsigned "length--" leaves when length was 0.
\* The tool's integers are 32 bits wide, so the largest of them stands for it;
\* the program only compares it with POOLSIZE and pool_balance.
SIZE_MAX == 2147483647

\* sizes of the samples folded in by the pollers (LP64)
SIZEOF_PID_T == 4
SIZEOF_TIME_T == 8
SIZEOF_CLOCK_T == 8
SIZEOF_SUSECONDS_T == 8
SIZEOF_RUSAGE == 144

\* enum random_origins (rand-internal.h)
RANDOM_ORIGIN_INIT == 0
RANDOM_ORIGIN_EXTERNAL == 1
RANDOM_ORIGIN_FASTPOLL == 2
RANDOM_ORIGIN_SLOWPOLL == 3
RANDOM_ORIGIN_EXTRAPOLL == 4

\* enum gcry_random_level
GCRY_WEAK_RANDOM == 0
GCRY_STRONG_RANDOM == 1
GCRY_VERY_STRONG_RANDOM == 2

\* the null pointer value of rndpool / keypool
NULL == <<>>

(* ----------------------------------------------------------------------- *)
(* Bounds of the model                                                     *)
(* ----------------------------------------------------------------------- *)
\* number of threads
NThreads == 2
\* public operations started, plus forks, in one run
MaxOps == 2
\* pid changes (forks seen through getpid) in one run
MaxForks == 1

Threads == 1..NThreads

(* ----------------------------------------------------------------------- *)
(* Byte helpers                                                            *)
(* ----------------------------------------------------------------------- *)
Min(a, b) == IF a < b THEN a ELSE b

RECURSIVE XorBits(_, _, _)
XorBits(a, b, n) ==
  IF n = 0 THEN 0
  ELSE (((a % 2) + (b % 2)) % 2) + 2 * XorBits(a \div 2, b \div 2, n - 1)

\* a ^ b on unsigned char
Xor8(a, b) == IF b = 0 THEN a ELSE IF a = 0 THEN b ELSE XorBits(a, b, 8)

\* the function f on 1..n as a tuple
Tup(f, n) == SubSeq(f, 1, n)

\* n bytes of value v
Bytes(n, v) == Tup([i \in 1..n |-> v], n)

\* little-endian object representation of the integer x in n bytes
RECURSIVE Pow256(_)
Pow256(k) == IF k = 0 THEN 1 ELSE 256 * Pow256(k - 1)
LEBytes(x, n) == Tup([i \in 1..n |-> (x \div Pow256(i - 1)) % 256], n)

IsZero(s, n) == \A i \in 1..n : s[i] = 0

(* ----------------------------------------------------------------------- *)
(* Hash primitive (cipher/sha1.c, not part of this file): a deterministic  *)
(* stand-in with the interface of _gcry_sha1_mixblock / hash_buffer.       *)
(* ----------------------------------------------------------------------- *)
sha1_mixblock_init == Tup([i \in 1..DIGESTLEN |-> (17 * i + 1) % 256], DIGESTLEN)

\* new chaining state; its DIGESTLEN bytes are also written to hashbuf[0..20)
sha1_mixblock(md, blk) ==
  Tup([i \in 1..DIGESTLEN |->
         (md[i] + blk[i] + 3 * blk[i + 20] + 5 * blk[i + 40]
            + (IF i <= BLOCKLEN - 60 THEN 7 * blk[60 + i] ELSE 0) + 1) % 256],
      DIGESTLEN)

\* weighted sum of the bytes i, i+20, i+40, ... of rows lo..hi of buf
RECURSIVE HashColumn(_, _, _, _)
HashColumn(buf, i, lo, hi) ==
  IF lo > hi THEN 0
  ELSE IF lo = hi THEN (lo + 1) * buf[DIGESTLEN * lo + i]
  ELSE LET mid == (lo + hi) \div 2
       IN  HashColumn(buf, i, lo, mid) + HashColumn(buf, i, mid + 1, hi)

\* digest of a buffer whose length is a multiple of DIGESTLEN
sha1_hash_buffer(buf) ==
  Tup([i \in 1..DIGESTLEN |->
         (HashColumn(buf, i, 0, (Len(buf) \div DIGESTLEN) - 1) + i) % 256],
      DIGESTLEN)

(* ----------------------------------------------------------------------- *)
(* mix_pool                                                                *)
(* ----------------------------------------------------------------------- *)
\* variant: the block is read where its digest is going to be written
MixBlockInput_ahead(main, n) ==
  LET p == n * DIGESTLEN
  IN  IF p + BLOCKLEN < POOLSIZE
      THEN SubSeq(main, p + 1, p + BLOCKLEN)
      ELSE Tup([i \in 1..BLOCKLEN |-> main[((p + i - 1) % POOLSIZE) + 1]],
               BLOCKLEN)

\* the 64 bytes copied to hashbuf in iteration n (p = pool + (n-1)*DIGESTLEN)
MixBlockInput(main, n) ==
  LET p == (n - 1) * DIGESTLEN
  IN  IF p + BLOCKLEN < POOLSIZE
      THEN SubSeq(main, p + 1, p + BLOCKLEN)
      ELSE Tup([i \in 1..BLOCKLEN |-> main[((p + i - 1) % POOLSIZE) + 1]],
               BLOCKLEN)

\* one iteration of "Loop for the remaining iterations" on the state
\* s = <<pool[0..S), hashbuf, md>>
MixIteration(s, n) ==
  LET blk == MixBlockInput(s[1], n)
      md2 == sha1_mixblock(s[3], blk)
      hb2 == md2 \o SubSeq(blk, DIGESTLEN + 1, BLOCKLEN)
      p2  == n * DIGESTLEN
      main2 == SubSeq(s[1], 1, p2) \o md2
                 \o SubSeq(s[1], p2 + DIGESTLEN + 1, POOLSIZE)
  IN  <<main2, hb2, md2>>

\* "for (n=1; n < POOLBLOCKS; n++)" from iteration n on.  The test of s makes the
\* evaluation compute each iteration before it enters the next one.
RECURSIVE MixLoop(_, _)
MixLoop(s, n) ==
  IF n >= POOLBLOCKS \/ s = <<>> THEN s
  ELSE MixLoop(MixIteration(s, n), n + 1)

\* variant: the failsafe digest goes into whichever pool is mixed
applies_failsafe_any(is_rndpool, fvalid) == fvalid

\* "if (failsafe_digest_valid && pool == rndpool)"
applies_failsafe(is_rndpool, fvalid) == fvalid /\ is_rndpool

\* pool: the POOLSIZE+BLOCKLEN bytes of the buffer; is_rndpool: pool == rndpool;
\* fd, fvalid: the statics failsafe_digest, failsafe_digest_valid.
mix_pool(pool, is_rndpool, fd, fvalid) ==
  LET main0 == SubSeq(pool, 1, POOLSIZE)
      hb0 == SubSeq(main0, POOLSIZE - DIGESTLEN + 1, POOLSIZE)
               \o SubSeq(main0, 1, BLOCKLEN - DIGESTLEN)
      md1 == sha1_mixblock(sha1_mixblock_init, hb0)
      hb1 == md1 \o SubSeq(hb0, DIGESTLEN + 1, BLOCKLEN)
      first == IF applies_failsafe(is_rndpool, fvalid)
               THEN Tup([i \in 1..DIGESTLEN |-> Xor8(hb1[i], fd[i])], DIGESTLEN)
               ELSE SubSeq(hb1, 1, DIGESTLEN)
      main1 == first \o SubSeq(main0, DIGESTLEN + 1, POOLSIZE)
      r == MixLoop(<<main1, hb1, md1>>, 1)
  IN  [pool |-> r[1] \o r[2],
       failsafe_digest |-> IF is_rndpool THEN sha1_hash_buffer(r[1]) ELSE fd,
       failsafe_digest_valid |-> IF is_rndpool THEN TRUE ELSE fvalid]

(* ----------------------------------------------------------------------- *)
(* "*dp = *sp + ADD_VALUE" over POOLWORDS unsigned longs                   *)
(* ----------------------------------------------------------------------- *)
RECURSIVE AddCarry(_, _)
\* carry into byte i (1-based) of its word
AddCarry(src, i) ==
  IF (i - 1) % SIZEOF_UNSIGNED_LONG = 0 THEN 0
  ELSE (src[i - 1] + ADD_VALUE_BYTE + AddCarry(src, i - 1)) \div 256

\* new keypool: the first POOLWORDS words derived from src, the rest kept
derive_keypool(dst, src) ==
  Tup([i \in 1..(POOLSIZE + BLOCKLEN) |->
         IF i <= POOLWORDS * SIZEOF_UNSIGNED_LONG
         THEN (src[i] + ADD_VALUE_BYTE + AddCarry(src, i)) % 256
         ELSE dst[i]],
      POOLSIZE + BLOCKLEN)

(* ----------------------------------------------------------------------- *)
(* State                                                                   *)
(* ----------------------------------------------------------------------- *)
VARIABLES
  \* the module's statics
  rndpool, keypool, pool_writepos, pool_readpos, pool_filled,
  pool_filled_counter, did_initial_extra_seeding, pool_balance, just_mixed,
  seed_file_name, allow_seed_file_update, slow_gather_fnc, quick_test,
  pool_lock, pool_is_locked, rndstats,
  \* statics of mix_pool and read_pool
  failsafe_digest, failsafe_digest_valid, my_pid,
  \* the environment: getpid() and the seed file on disk
  cur_pid, seed_file,
  \* per thread: position, locals, output buffer, return value
  pc, frame, out, ret,
  \* "running", or how the process ended (log_fatal, log_bug, BUG, assert, SIGSEGV)
  proc,
  \* bookkeeping of the run
  nops, nforks,
  \* history: an access to pool state by a thread not holding pool_lock
  g_unlocked_access,
  \* history: read_random_source requests of the current read_pool call
  g_reads,
  \* history: a seed file was loaded since start / the last close, and the
  \* forced read that followed it
  g_seed_loaded, g_seed_topup,
  \* history: bytes of origin >= SLOWPOLL folded in since start / the last close
  g_reliable,
  \* history of the current read_pool call: the entry fork check fired
  g_prefork,
  \* history: the operation that wrote keypool last
  g_keypool_writer

poolvars == <<rndpool, keypool, pool_writepos, pool_readpos, pool_filled,
              pool_filled_counter, did_initial_extra_seeding, pool_balance,
              just_mixed, rndstats, failsafe_digest, failsafe_digest_valid,
              my_pid>>
cfgvars == <<seed_file_name, allow_seed_file_update, slow_gather_fnc,
             quick_test>>
lockvars == <<pool_lock, pool_is_locked>>
envvars == <<cur_pid, seed_file, nforks>>
thrvars == <<pc, frame, out, ret>>
histvars == <<g_unlocked_access, g_reads, g_seed_loaded, g_seed_topup,
              g_reliable, g_prefork, g_keypool_writer>>
vars == <<poolvars, cfgvars, lockvars, envvars, thrvars, histvars, proc, nops>>

(* ----------------------------------------------------------------------- *)
(* Inputs                                                                  *)
(* ----------------------------------------------------------------------- *)
\* The first thread explores the whole alphabet of arguments; a call that
\* overlaps with it comes with small arguments.
\* randomize: request lengths and levels
Lengths(t) == IF t = 1 THEN {0, 1, 17, POOLSIZE + 1} ELSE {1}
Levels(t) == IF t = 1 THEN {GCRY_STRONG_RANDOM, GCRY_VERY_STRONG_RANDOM}
             ELSE {GCRY_STRONG_RANDOM}
\* add_bytes: buffer present, buflen, quality
HasBufs(t) == IF t = 1 THEN BOOLEAN ELSE {TRUE}
BufLens(t) == IF t = 1 THEN {0, 64, POOLSIZE} ELSE {64}
Qualities(t) == IF t = 1 THEN {-5, -1, 5, 50} ELSE {50}
\* behaviours of the slow gather module bound at full initialization
GatherModes == {"exact", "bulk"}
\* states of the seed file on disk when its name is registered
SeedFiles == {[kind |-> "missing", data |-> <<>>],
              [kind |-> "unopenable", data |-> <<>>],
              [kind |-> "notregular", data |-> <<>>],
              [kind |-> "regular", data |-> <<>>],
              [kind |-> "regular", data |-> Bytes(1, 0)],
              [kind |-> "regular", data |-> Bytes(POOLSIZE, 0)]}
\* bytes handed over by the hardware RNG quick read
HwPollSizes == {0}
\* byte values of the samples: gathered entropy, external input, clocks
GATHER_BYTE == 90
EXTERNAL_BYTE == 60
CLOCK_BYTE == 7
FirstPid == 100

ZeroStats == [mixrnd |-> 0, mixkey |-> 0, slowpolls |-> 0, fastpolls |-> 0,
              getbytes1 |-> 0, ngetbytes1 |-> 0, getbytes2 |-> 0,
              ngetbytes2 |-> 0, addbytes |-> 0, naddbytes |-> 0]

\* the locals of the thread's call; did0: history, did_initial_extra_seeding
\* when read_pool was entered; length0, level0, has_buf, quality: history,
\* the arguments length, level of randomize and buf, quality of add_bytes as
\* passed
NoFrame == [length |-> 0, level |-> 0, rp_length |-> 0, n |-> 0,
            my_pid2 |-> 0, buflen |-> 0, did0 |-> FALSE, length0 |-> 0,
            level0 |-> 0, has_buf |-> TRUE, quality |-> 0]

NoPrefork == [detected |-> FALSE, origin |-> -1, my_pid |-> -1,
              just_mixed |-> FALSE, mixrnd |-> 0]

Init ==
  /\ rndpool = NULL /\ keypool = NULL
  /\ pool_writepos = 0 /\ pool_readpos = 0
  /\ pool_filled = FALSE /\ pool_filled_counter = 0
  /\ did_initial_extra_seeding = FALSE /\ pool_balance = 0
  /\ just_mixed = FALSE
  /\ seed_file_name = FALSE /\ allow_seed_file_update = FALSE
  /\ slow_gather_fnc = "null" /\ quick_test = FALSE
  /\ pool_lock = 0 /\ pool_is_locked = FALSE
  /\ rndstats = ZeroStats
  /\ failsafe_digest = Bytes(DIGESTLEN, 0) /\ failsafe_digest_valid = FALSE
  /\ my_pid = -1
  /\ cur_pid = FirstPid
  /\ seed_file = [kind |-> "none", data |-> <<>>]
  /\ pc = [t \in Threads |-> "idle"]
  /\ frame = [t \in Threads |-> NoFrame]
  /\ out = [t \in Threads |-> <<>>]
  /\ ret = [t \in Threads |-> "none"]
  /\ proc = "running"
  /\ nops = 0 /\ nforks = 0
  /\ g_unlocked_access = FALSE
  /\ g_reads = <<>>
  /\ g_seed_loaded = FALSE /\ g_seed_topup = <<>>
  /\ g_reliable = 0
  /\ g_prefork = NoPrefork
  /\ g_keypool_writer = "none"

(* ----------------------------------------------------------------------- *)
(* The pool statics as one value, so that the static functions compose.    *)
(* end: "running", or how the process ended inside the function.           *)
(* reliable: history, bytes of origin >= SLOWPOLL folded in.               *)
(* reads: history, the requests made through read_random_source.           *)
(* ----------------------------------------------------------------------- *)
Cur ==
  [rndpool |-> rndpool, pool_writepos |-> pool_writepos,
   pool_filled |-> pool_filled, pool_filled_counter |-> pool_filled_counter,
   just_mixed |-> just_mixed, rndstats |-> rndstats,
   failsafe_digest |-> failsafe_digest,
   failsafe_digest_valid |-> failsafe_digest_valid,
   end |-> "running", reliable |-> g_reliable, reads |-> g_reads]

\* mix_pool (rndpool); rndstats.mixrnd++
mix_rndpool(P) ==
  LET m == mix_pool(P.rndpool, TRUE, P.failsafe_digest, P.failsafe_digest_valid)
  IN  [P EXCEPT !.rndpool = m.pool,
                !.failsafe_digest = m.failsafe_digest,
                !.failsafe_digest_valid = m.failsafe_digest_valid,
                !.rndstats.mixrnd = @ + 1]

\* variant: the origin is not looked at
counts_for_fill_any(origin, filled) == ~filled

\* variant: the threshold is the wrong enumerator
counts_for_fill_external(origin, filled) ==
  origin >= RANDOM_ORIGIN_EXTERNAL /\ ~filled

\* "origin >= RANDOM_ORIGIN_SLOWPOLL && !pool_filled"
counts_for_fill(origin, filled) == origin >= RANDOM_ORIGIN_SLOWPOLL /\ ~filled

\* variant: the threshold of one slow poll instead of the pool size
fill_reached_early(counter) == counter >= POOLSIZE \div 5

\* "if (pool_filled_counter >= POOLSIZE) pool_filled = 1"
fill_reached(counter) == counter >= POOLSIZE

\* "just_mixed = !length" with length the bytes still to be added
\* variant: every wrap leaves just_mixed set
just_mixed_after_wrap_always(remaining) == TRUE

just_mixed_after_wrap(remaining) == (remaining = 0)

\* the while loop of add_randomness, one run of bytes up to the next wrap at
\* a time; count is the local of that name
RECURSIVE add_loop(_, _, _, _)
add_loop(P, buf, origin, count) ==
  IF Len(buf) = 0 THEN P
  ELSE
    LET w == P.pool_writepos
        k == Min(Len(buf), POOLSIZE - w)
        pool1 == SubSeq(P.rndpool, 1, w)
                   \o Tup([i \in 1..k |-> Xor8(P.rndpool[w + i], buf[i])], k)
                   \o SubSeq(P.rndpool, w + k + 1, POOLSIZE + BLOCKLEN)
        rest == SubSeq(buf, k + 1, Len(buf))
        rel == IF origin >= RANDOM_ORIGIN_SLOWPOLL THEN P.reliable + k
               ELSE P.reliable
    IN  IF w + k < POOLSIZE
        THEN [P EXCEPT !.rndpool = pool1, !.pool_writepos = w + k,
                       !.reliable = rel]
        ELSE
          LET credit == counts_for_fill(origin, P.pool_filled)
              ctr == IF credit THEN P.pool_filled_counter + count + k
                     ELSE P.pool_filled_counter
              P1 == [P EXCEPT !.rndpool = pool1,
                              !.pool_writepos = 0,
                              !.pool_filled_counter = ctr,
                              !.pool_filled = @ \/ (credit /\ fill_reached(ctr)),
                              !.reliable = rel]
              P2 == [mix_rndpool(P1) EXCEPT
                       !.just_mixed = just_mixed_after_wrap(Len(rest))]
          IN  add_loop(P2, rest, origin, IF credit THEN 0 ELSE count + k)

\* add_randomness (buffer, length, origin) with the lock assertion passed
add_randomness(P, buf, origin) ==
  IF P.end # "running" THEN P
  ELSE
    LET P1 == [P EXCEPT !.rndstats.addbytes = @ + Len(buf),
                        !.rndstats.naddbytes = @ + 1]
    IN  IF Len(buf) = 0 THEN P1
        ELSE IF P.rndpool = NULL THEN [P1 EXCEPT !.end = "segv"]
        ELSE add_loop(P1, buf, origin, 0)

\* sizes of the callbacks by which a gather module delivers length bytes
GatherCallbacks(mode, length) ==
  CASE mode = "exact" -> <<length>>
    [] mode = "halves" -> IF length < 2 THEN <<length>>
                          ELSE <<length \div 2, length - (length \div 2)>>
    [] mode = "bulk" -> <<IF length < POOLSIZE THEN POOLSIZE ELSE length>>

RECURSIVE gather_random(_, _, _)
\* the gather module calling (*add)(buffer, n, origin) once per callback
gather_random(P, sizes, origin) ==
  IF P.end # "running" \/ Len(sizes) = 0 THEN P
  ELSE gather_random(add_randomness(P, Bytes(Head(sizes), GATHER_BYTE), origin),
                     Tail(sizes), origin)

\* read_random_source (origin, length, level); ok: the module returned >= 0
read_random_source(P, fnc, origin, length, level, ok) ==
  IF P.end # "running" THEN P
  ELSE IF fnc = "null" THEN [P EXCEPT !.end = "fatal"]
  ELSE
    LET P1 == [P EXCEPT !.reads = Append(@, <<origin, length, level>>)]
    IN  IF ~ok THEN [P1 EXCEPT !.end = "fatal"]
        ELSE gather_random(P1, GatherCallbacks(fnc, length), origin)

\* variant: the poll of the fill loop asks like the top-up does
random_poll_extra(P, fnc, ok) ==
  read_random_source([P EXCEPT !.rndstats.slowpolls = @ + 1], fnc,
                     RANDOM_ORIGIN_EXTRAPOLL, POOLSIZE \div 5,
                     GCRY_VERY_STRONG_RANDOM, ok)

\* random_poll
random_poll(P, fnc, ok) ==
  read_random_source([P EXCEPT !.rndstats.slowpolls = @ + 1], fnc,
                     RANDOM_ORIGIN_SLOWPOLL, POOLSIZE \div 5,
                     GCRY_STRONG_RANDOM, ok)

RECURSIVE add_each(_, _, _)
\* add_randomness called once for each buffer of bufs, in order
add_each(P, bufs, origin) ==
  IF P.end # "running" \/ Len(bufs) = 0 THEN P
  ELSE add_each(add_randomness(P, Head(bufs), origin), Tail(bufs), origin)

\* the samples of do_fast_random_poll without the hardware RNG: gettimeofday
\* (tv_sec, tv_usec), getrusage, time, clock
FastPollSamples ==
  <<Bytes(SIZEOF_TIME_T, CLOCK_BYTE), Bytes(SIZEOF_SUSECONDS_T, CLOCK_BYTE),
    Bytes(SIZEOF_RUSAGE, CLOCK_BYTE), Bytes(SIZEOF_TIME_T, CLOCK_BYTE),
    Bytes(SIZEOF_CLOCK_T, CLOCK_BYTE)>>

\* do_fast_random_poll with the lock assertion passed; hw: bytes that
\* _gcry_rndhw_poll_fast hands to the callback at the end
do_fast_random_poll(P, hw) ==
  add_each([P EXCEPT !.rndstats.fastpolls = @ + 1],
           IF hw = 0 THEN FastPollSamples
           ELSE FastPollSamples \o <<Bytes(hw, GATHER_BYTE)>>,
           RANDOM_ORIGIN_FASTPOLL)

\* origin of the forced read at the end of read_seed_file
SeedTopupOrigin == RANDOM_ORIGIN_INIT
\* its length: with / without the jitter RNG
SeedTopupLength(jent) == IF jent THEN 128 ELSE 32

\* the file is not read: open fails, or fstat shows something other than a
\* regular file of POOLSIZE bytes
seed_file_rejected(file) ==
  file.kind # "regular" \/ Len(file.data) # POOLSIZE

\* variant: every rejected file allows the later update
allow_after_reject_always(file, allow) == TRUE

\* allow_seed_file_update after a rejected file: set for ENOENT and for an
\* empty regular file, left alone otherwise
allow_after_reject(file, allow) ==
  IF file.kind = "missing" THEN TRUE
  ELSE IF file.kind \in {"unopenable", "notregular"} THEN allow
  ELSE IF Len(file.data) = 0 THEN TRUE
  ELSE allow

\* read_seed_file with the lock assertion passed.  Returns the pool, the
\* return value (loaded) and the new allow_seed_file_update; nothing is
\* returned when the process ends inside.
read_seed_file(P, name, file, allow, fnc, pid, jent, ok) ==
  IF ~name THEN [P |-> P, loaded |-> FALSE, allow |-> allow]
  ELSE IF seed_file_rejected(file)
    THEN [P |-> P, loaded |-> FALSE,
          allow |-> allow_after_reject(file, allow)]
  ELSE
    \* the file's bytes, getpid, time and clock, then the forced read
    LET P4 == add_each(P, <<file.data, LEBytes(pid, SIZEOF_PID_T),
                            Bytes(SIZEOF_TIME_T, CLOCK_BYTE),
                            Bytes(SIZEOF_CLOCK_T, CLOCK_BYTE)>>,
                       RANDOM_ORIGIN_INIT)
        P5 == read_random_source(P4, fnc, SeedTopupOrigin,
                                 SeedTopupLength(jent), GCRY_STRONG_RANDOM, ok)
        returned == P5.end = "running"
    IN  [P |-> P5, loaded |-> returned,
         allow |-> IF returned THEN TRUE ELSE allow]

(* ----------------------------------------------------------------------- *)
(* Steps: shared pieces                                                    *)
(* ----------------------------------------------------------------------- *)
\* variant: the mutex is taken without waiting for it to be free
lock_pool_nowait(t) ==
  /\ pool_lock' = t
  /\ pool_is_locked' = TRUE

\* lock_pool: blocks until the mutex is free
lock_pool(t) ==
  /\ pool_lock = 0
  /\ pool_lock' = t
  /\ pool_is_locked' = TRUE

\* unlock_pool
unlock_pool(t) ==
  /\ pool_is_locked' = FALSE
  /\ pool_lock' = 0

\* thread t reads or writes pool state in this step
Touch(t) == g_unlocked_access' = (g_unlocked_access \/ pool_lock # t)

\* the process ends (abort, exit or signal) and nothing else happens
Abort(how) ==
  /\ proc' = how
  /\ UNCHANGED <<poolvars, cfgvars, lockvars, envvars, thrvars, histvars, nops>>

\* the statics held in P become the state; the process ends if it ended in P
Commit(P) ==
  /\ rndpool' = P.rndpool
  /\ pool_writepos' = P.pool_writepos
  /\ pool_filled' = P.pool_filled
  /\ pool_filled_counter' = P.pool_filled_counter
  /\ just_mixed' = P.just_mixed
  /\ rndstats' = P.rndstats
  /\ failsafe_digest' = P.failsafe_digest
  /\ failsafe_digest_valid' = P.failsafe_digest_valid
  /\ g_reliable' = P.reliable
  /\ proc' = P.end

Goto(t, label) == pc' = [pc EXCEPT ![t] = label]

\* Threads are interchangeable: the next call is made by the lowest idle one.
Idle(t) ==
  /\ pc[t] = "idle" /\ proc = "running" /\ nops < MaxOps
  /\ \A u \in Threads : u < t => pc[u] # "idle"

At(t, label) == pc[t] = label /\ proc = "running"

(* ----------------------------------------------------------------------- *)
(* Configuration                                                           *)
(* ----------------------------------------------------------------------- *)
\* The configuration calls are made during the initialization of the
\* library, before the first call that uses the pool.
Configuring ==
  /\ proc = "running" /\ nops = 0
  /\ \A t \in Threads : pc[t] = "idle"

\* _gcry_rngcsprng_set_seed_file; file: what is on disk under that name
SetSeedFile(file) ==
  /\ Configuring
  /\ IF seed_file_name
     THEN /\ proc' = "bug"
          /\ UNCHANGED <<seed_file_name, seed_file>>
     ELSE /\ seed_file_name' = TRUE
          /\ seed_file' = file
          /\ UNCHANGED proc
  /\ UNCHANGED <<poolvars, allow_seed_file_update, slow_gather_fnc, quick_test,
                 lockvars, cur_pid, nforks, thrvars, histvars, nops>>

\* _gcry_rngcsprng_enable_quick_gen
EnableQuickGen ==
  /\ Configuring
  /\ ~quick_test
  /\ quick_test' = TRUE
  /\ UNCHANGED <<poolvars, seed_file_name, allow_seed_file_update,
                 slow_gather_fnc, lockvars, envvars, thrvars, histvars, proc,
                 nops>>

\* The process forks and the model follows the child: getpid() changes.
\* getpid() is read at the entry and exit fork checks and in read_seed_file
\* only, so a fork at any earlier moment is the same as one right before the
\* next of these reads.
Fork ==
  /\ proc = "running"
  /\ nforks < MaxForks /\ nops < MaxOps
  /\ \E t \in Threads :
       \/ pc[t] \in {"rp_retry", "rp_postfork"}
       \/ /\ pc[t] = "rp_seed" /\ ~pool_filled /\ seed_file_name
          /\ seed_file.kind = "regular" /\ Len(seed_file.data) = POOLSIZE
  /\ nforks' = nforks + 1
  /\ nops' = nops + 1
  /\ cur_pid' = cur_pid + 1
  /\ UNCHANGED <<poolvars, cfgvars, lockvars, seed_file, thrvars, histvars,
                 proc>>

(* ----------------------------------------------------------------------- *)
(* _gcry_rngcsprng_randomize                                               *)
(* ----------------------------------------------------------------------- *)
\* the call, up to lock_pool in initialize
RandomizeCall(t, length, level) ==
  /\ Idle(t)
  /\ nops' = nops + 1
  /\ lock_pool(t)
  /\ frame' = [frame EXCEPT ![t] = [NoFrame EXCEPT !.length = length,
                                                   !.level = level,
                                                   !.length0 = length,
                                                   !.level0 = level]]
  /\ out' = [out EXCEPT ![t] = <<>>]
  /\ ret' = [ret EXCEPT ![t] = "none"]
  /\ Goto(t, "rz_initialize")
  /\ UNCHANGED <<poolvars, cfgvars, envvars, histvars, proc>>

\* variant: the level is masked only
effective_level_masked(qt, level) == level % 4

\* "if (quick_test && level > GCRY_STRONG_RANDOM) level = GCRY_STRONG_RANDOM;
\*  level &= 3"
effective_level(qt, level) ==
  IF qt /\ level > GCRY_STRONG_RANDOM THEN GCRY_STRONG_RANDOM ELSE level % 4

\* the rest of initialize and the level adjustment; mode: the gather module
\* that getfnc_gather_random finds
RzInitialize(t, mode) ==
  /\ At(t, "rz_initialize")
  /\ Touch(t)
  /\ IF rndpool = NULL
     THEN /\ rndpool' = Bytes(POOLSIZE + BLOCKLEN, 0)
          /\ keypool' = Bytes(POOLSIZE + BLOCKLEN, 0)
          /\ slow_gather_fnc' = mode
     ELSE UNCHANGED <<rndpool, keypool, slow_gather_fnc>>
  /\ unlock_pool(t)
  /\ frame' = [frame EXCEPT ![t].level = effective_level(quick_test, @)]
  /\ Goto(t, "rz_lock")
  /\ UNCHANGED <<pool_writepos, pool_readpos, pool_filled, pool_filled_counter,
                 did_initial_extra_seeding, pool_balance, just_mixed, rndstats,
                 failsafe_digest, failsafe_digest_valid, my_pid,
                 seed_file_name, allow_seed_file_update, quick_test, envvars,
                 out, ret, proc, nops, g_reads, g_seed_loaded, g_seed_topup,
                 g_reliable, g_prefork, g_keypool_writer>>

\* lock_pool and the statistics
RzLock(t) ==
  /\ At(t, "rz_lock")
  /\ lock_pool(t)
  /\ g_unlocked_access' = g_unlocked_access
  /\ rndstats' =
       IF frame[t].level >= GCRY_VERY_STRONG_RANDOM
       THEN [rndstats EXCEPT !.getbytes2 = @ + frame[t].length,
                             !.ngetbytes2 = @ + 1]
       ELSE [rndstats EXCEPT !.getbytes1 = @ + frame[t].length,
                             !.ngetbytes1 = @ + 1]
  /\ Goto(t, "rz_loop")
  /\ UNCHANGED <<rndpool, keypool, pool_writepos, pool_readpos, pool_filled,
                 pool_filled_counter, did_initial_extra_seeding, pool_balance,
                 just_mixed, failsafe_digest, failsafe_digest_valid, my_pid,
                 cfgvars, envvars, frame, out, ret, proc, nops, g_reads,
                 g_seed_loaded, g_seed_topup, g_reliable, g_prefork,
                 g_keypool_writer>>

\* "n = length > POOLSIZE? POOLSIZE : length"
chunk_length(length) == IF length > POOLSIZE THEN POOLSIZE ELSE length

\* the head of the for loop: call read_pool for the next chunk, or unlock
\* and return
RzLoop(t) ==
  /\ At(t, "rz_loop")
  /\ IF frame[t].length > 0
     THEN /\ frame' = [frame EXCEPT
                         ![t].n = chunk_length(frame[t].length),
                         ![t].rp_length = chunk_length(frame[t].length),
                         ![t].did0 = did_initial_extra_seeding]
          /\ Goto(t, "rp_retry")
          /\ g_reads' = <<>>
          /\ g_prefork' = NoPrefork
          /\ UNCHANGED <<lockvars>>
     ELSE /\ unlock_pool(t)
          /\ Goto(t, "idle")
          /\ UNCHANGED <<frame, g_reads, g_prefork>>
  /\ UNCHANGED <<poolvars, cfgvars, envvars, out, ret, proc, nops,
                 g_unlocked_access, g_seed_loaded, g_seed_topup, g_reliable,
                 g_keypool_writer>>

(* ----------------------------------------------------------------------- *)
(* read_pool, one step per stage                                           *)
(* ----------------------------------------------------------------------- *)
\* the position moves on unless the process ended in this step
Advance(t, P, label) ==
  pc' = IF P.end = "running" THEN [pc EXCEPT ![t] = label] ELSE pc

\* "if (my_pid != my_pid2)"
fork_detected(static_pid, pid2) == static_pid # pid2

\* origin of the pid folded in by the fork branches
ForkFoldOrigin == RANDOM_ORIGIN_INIT

\* variant: just_mixed is left as it is
fold_new_pid_keep(P, pid) ==
  add_randomness(P, LEBytes(pid, SIZEOF_PID_T), ForkFoldOrigin)

\* the fork branch: fold the pid, "just_mixed = 0"
fold_new_pid(P, pid) ==
  [add_randomness(P, LEBytes(pid, SIZEOF_PID_T), ForkFoldOrigin)
     EXCEPT !.just_mixed = FALSE]

\* int converted to size_t for a comparison with a size_t
to_size_t(i) == IF i < 0 THEN SIZE_MAX + (i + 1) ELSE i

\* retry: the entry fork check
RpRetry(t) ==
  /\ At(t, "rp_retry")
  /\ IF ~pool_is_locked THEN Abort("assert")
     ELSE
       LET my_pid2 == cur_pid
           pid1 == IF my_pid = -1 THEN my_pid2 ELSE my_pid
           forked == fork_detected(pid1, my_pid2)
       IN  \E P \in {IF forked THEN fold_new_pid(Cur, my_pid2) ELSE Cur} :
           /\ Touch(t)
           /\ Commit(P)
           /\ my_pid' = IF forked THEN my_pid2 ELSE pid1
           /\ frame' = [frame EXCEPT ![t].my_pid2 = my_pid2]
           /\ g_prefork' =
                IF forked
                THEN [detected |-> TRUE, origin |-> ForkFoldOrigin,
                      my_pid |-> my_pid2, just_mixed |-> P.just_mixed,
                      mixrnd |-> P.rndstats.mixrnd]
                ELSE NoPrefork
           /\ Advance(t, P, "rp_seed")
           /\ UNCHANGED <<keypool, pool_readpos, did_initial_extra_seeding,
                          pool_balance, cfgvars, lockvars, envvars, out, ret,
                          nops, g_reads, g_seed_loaded, g_seed_topup,
                          g_keypool_writer>>

\* the length check and "if (!pool_filled) if (read_seed_file ()) pool_filled = 1"
RpSeed(t, jent, ok) ==
  /\ At(t, "rp_seed")
  /\ IF ~pool_is_locked THEN Abort("assert")
     ELSE IF frame[t].rp_length > POOLSIZE THEN Abort("bug")
     ELSE
       \E r \in {IF ~pool_filled
                 THEN read_seed_file(Cur, seed_file_name, seed_file,
                                     allow_seed_file_update, slow_gather_fnc,
                                     cur_pid, jent, ok)
                 ELSE [P |-> Cur, loaded |-> FALSE,
                       allow |-> allow_seed_file_update]} :
       LET P == [r.P EXCEPT !.pool_filled = @ \/ r.loaded]
       IN  /\ Touch(t)
           /\ Commit(P)
           /\ allow_seed_file_update' = r.allow
           /\ g_seed_loaded' = (g_seed_loaded \/ r.loaded)
           /\ g_seed_topup' = IF r.loaded /\ Len(P.reads) > Len(g_reads)
                              THEN P.reads[Len(P.reads)] ELSE g_seed_topup
           /\ g_reads' = P.reads
           /\ Advance(t, P, "rp_extra1")
           /\ UNCHANGED <<keypool, pool_readpos, did_initial_extra_seeding,
                          pool_balance, my_pid, seed_file_name,
                          slow_gather_fnc, quick_test, lockvars, envvars,
                          frame, out, ret, nops, g_prefork, g_keypool_writer>>

\* variant: without the minimum of 128 bits
initial_needed_exact(length) == length - 0

\* "needed = length - pool_balance; if (needed < 16) needed = 16" with
\* pool_balance just set to 0
initial_needed(length) == IF length - 0 < 16 THEN 16 ELSE length - 0

\* "level == GCRY_VERY_STRONG_RANDOM && !did_initial_extra_seeding"
wants_initial_seeding(level, did) ==
  level = GCRY_VERY_STRONG_RANDOM /\ ~did

\* the initial extra seeding of level 2
RpExtra1(t, ok) ==
  /\ At(t, "rp_extra1")
  /\ IF ~wants_initial_seeding(frame[t].level, did_initial_extra_seeding)
     THEN /\ Goto(t, "rp_extra2")
          /\ UNCHANGED <<poolvars, cfgvars, lockvars, envvars, frame, out, ret,
                         histvars, proc, nops>>
     ELSE IF initial_needed(frame[t].rp_length) > POOLSIZE THEN Abort("bug")
     ELSE IF ~pool_is_locked /\ slow_gather_fnc # "null" /\ ok
       THEN Abort("assert")
     ELSE
       LET needed == initial_needed(frame[t].rp_length)
       IN  \E P \in {read_random_source(Cur, slow_gather_fnc,
                                        RANDOM_ORIGIN_EXTRAPOLL, needed,
                                        GCRY_VERY_STRONG_RANDOM, ok)} :
           /\ Touch(t)
           /\ Commit(P)
           /\ pool_balance' = 0 + needed
           /\ did_initial_extra_seeding' = TRUE
           /\ g_reads' = P.reads
           /\ Advance(t, P, "rp_extra2")
           /\ UNCHANGED <<keypool, pool_readpos, my_pid, cfgvars, lockvars,
                          envvars, frame, out, ret, nops, g_seed_loaded,
                          g_seed_topup, g_prefork, g_keypool_writer>>

\* variant: the balance is never topped up
wants_more_seeding_never(level, balance, length) == FALSE

\* "level == GCRY_VERY_STRONG_RANDOM && pool_balance < length"
wants_more_seeding(level, balance, length) ==
  level = GCRY_VERY_STRONG_RANDOM /\ to_size_t(balance) < length

\* the top-up of level 2
RpExtra2(t, ok) ==
  /\ At(t, "rp_extra2")
  /\ IF ~wants_more_seeding(frame[t].level, pool_balance, frame[t].rp_length)
     THEN /\ Goto(t, "rp_fill")
          /\ UNCHANGED <<poolvars, cfgvars, lockvars, envvars, frame, out, ret,
                         histvars, proc, nops>>
     ELSE
       LET bal == IF pool_balance < 0 THEN 0 ELSE pool_balance
           needed == frame[t].rp_length - bal
       IN  IF needed > POOLSIZE THEN Abort("bug")
           ELSE IF ~pool_is_locked /\ slow_gather_fnc # "null" /\ ok
             THEN Abort("assert")
           ELSE
             \E P \in {read_random_source(Cur, slow_gather_fnc,
                                          RANDOM_ORIGIN_EXTRAPOLL, needed,
                                          GCRY_VERY_STRONG_RANDOM, ok)} :
             /\ Touch(t)
             /\ Commit(P)
             /\ pool_balance' = bal + needed
             /\ g_reads' = P.reads
             /\ Advance(t, P, "rp_fill")
             /\ UNCHANGED <<keypool, pool_readpos, did_initial_extra_seeding,
                            my_pid, cfgvars, lockvars, envvars, frame, out,
                            ret, nops, g_seed_loaded, g_seed_topup, g_prefork,
                            g_keypool_writer>>

\* variant: the fill loop is skipped
must_poll_skipped(filled) == FALSE

\* "while (!pool_filled)"
must_poll(filled) == ~filled

\* one iteration of "while (!pool_filled) random_poll ()"
RpFill(t, ok) ==
  /\ At(t, "rp_fill")
  /\ must_poll(pool_filled)
  /\ IF ~pool_is_locked /\ slow_gather_fnc # "null" /\ ok THEN Abort("assert")
     ELSE
       \E P \in {random_poll(Cur, slow_gather_fnc, ok)} :
           /\ Touch(t)
           /\ Commit(P)
           /\ g_reads' = P.reads
           /\ UNCHANGED <<keypool, pool_readpos, did_initial_extra_seeding,
                          pool_balance, my_pid, cfgvars, lockvars, envvars,
                          thrvars, nops, g_seed_loaded, g_seed_topup,
                          g_prefork, g_keypool_writer>>

\* the loop is left; do_fast_random_poll
RpFastPoll(t, hw) ==
  /\ At(t, "rp_fill")
  /\ ~must_poll(pool_filled)
  /\ IF ~pool_is_locked THEN Abort("assert")
     ELSE
       \E P \in {do_fast_random_poll(Cur, hw)} :
           /\ Touch(t)
           /\ Commit(P)
           /\ Advance(t, P, "rp_pidmix")
           /\ UNCHANGED <<keypool, pool_readpos, did_initial_extra_seeding,
                          pool_balance, my_pid, cfgvars, lockvars, envvars,
                          frame, out, ret, nops, g_reads, g_seed_loaded,
                          g_seed_topup, g_prefork, g_keypool_writer>>

\* "apid = my_pid; add_randomness (&apid, sizeof (apid), RANDOM_ORIGIN_INIT)"
RpPidMix(t) ==
  /\ At(t, "rp_pidmix")
  /\ IF ~pool_is_locked THEN Abort("assert")
     ELSE
       \E P \in {add_randomness(Cur, LEBytes(my_pid, SIZEOF_PID_T),
                                    RANDOM_ORIGIN_INIT)} :
           /\ Touch(t)
           /\ Commit(P)
           /\ Advance(t, P, "rp_mix")
           /\ UNCHANGED <<keypool, pool_readpos, did_initial_extra_seeding,
                          pool_balance, my_pid, cfgvars, lockvars, envvars,
                          frame, out, ret, nops, g_reads, g_seed_loaded,
                          g_seed_topup, g_prefork, g_keypool_writer>>

\* "if (!just_mixed)"
needs_mix(jm) == ~jm

\* "if (!just_mixed) { mix_pool (rndpool); rndstats.mixrnd++; }"
RpMix(t) ==
  /\ At(t, "rp_mix")
  /\ IF ~needs_mix(just_mixed)
     THEN /\ Touch(t)
          /\ Goto(t, "rp_derive")
          /\ UNCHANGED <<poolvars, cfgvars, lockvars, envvars, frame, out, ret,
                         proc, nops, g_reads, g_seed_loaded, g_seed_topup,
                         g_reliable, g_prefork, g_keypool_writer>>
     ELSE IF ~pool_is_locked THEN Abort("assert")
     ELSE IF rndpool = NULL THEN Abort("segv")
     ELSE
       \E P \in {mix_rndpool(Cur)} :
           /\ Touch(t)
           /\ Commit(P)
           /\ Advance(t, P, "rp_derive")
           /\ UNCHANGED <<keypool, pool_readpos, did_initial_extra_seeding,
                          pool_balance, my_pid, cfgvars, lockvars, envvars,
                          frame, out, ret, nops, g_reads, g_seed_loaded,
                          g_seed_topup, g_prefork, g_keypool_writer>>

\* "Create a new pool": keypool = rndpool + ADD_VALUE, word by word
RpDerive(t) ==
  /\ At(t, "rp_derive")
  /\ IF rndpool = NULL \/ keypool = NULL THEN Abort("segv")
     ELSE
       /\ Touch(t)
       /\ keypool' = derive_keypool(keypool, rndpool)
       /\ g_keypool_writer' = "read_pool"
       /\ Goto(t, "rp_mix2")
       /\ UNCHANGED <<rndpool, pool_writepos, pool_readpos, pool_filled,
                      pool_filled_counter, did_initial_extra_seeding,
                      pool_balance, just_mixed, rndstats, failsafe_digest,
                      failsafe_digest_valid, my_pid, cfgvars, lockvars,
                      envvars, frame, out, ret, proc, nops, g_reads,
                      g_seed_loaded, g_seed_topup, g_reliable, g_prefork>>

\* variant: keypool is delivered as derived
mix_keypool_skipped(kp, P) == kp

\* mix_pool (keypool); rndstats.mixkey++
mix_keypool(kp, P) ==
  mix_pool(kp, FALSE, P.failsafe_digest, P.failsafe_digest_valid).pool

\* "Mix both pools"
RpMix2(t) ==
  /\ At(t, "rp_mix2")
  /\ IF ~pool_is_locked THEN Abort("assert")
     ELSE IF rndpool = NULL \/ keypool = NULL THEN Abort("segv")
     ELSE
       \E P1 \in {mix_rndpool(Cur)} :
           /\ Touch(t)
           /\ Commit([P1 EXCEPT !.rndstats.mixkey = @ + 1])
           /\ keypool' = mix_keypool(keypool, P1)
           /\ Goto(t, "rp_deliver")
           /\ UNCHANGED <<pool_readpos, did_initial_extra_seeding,
                          pool_balance, my_pid, cfgvars, lockvars, envvars,
                          frame, out, ret, nops, g_reads, g_seed_loaded,
                          g_seed_topup, g_prefork, g_keypool_writer>>

\* variant: every extraction reads from the start of keypool
read_out_from_start(kp, readpos, n) == SubSeq(kp, 1, n)

\* the bytes "*buffer++ = keypool[pool_readpos++]" copies for n bytes, with
\* "if (pool_readpos >= POOLSIZE) pool_readpos = 0"
read_out(kp, readpos, n) ==
  Tup([j \in 1..n |-> kp[((readpos + j - 1) % POOLSIZE) + 1]], n)

\* variant: the wrap of pool_readpos is missing
next_readpos_nowrap(readpos, n) == readpos + n

\* pool_readpos after n bytes
next_readpos(readpos, n) == (readpos + n) % POOLSIZE

\* the value of the size_t length after "while (length--)" has ended
length_after_loop == SIZE_MAX

\* "Read the requested data": the whole while loop
RpDeliver(t) ==
  /\ At(t, "rp_deliver")
  /\ IF keypool = NULL THEN Abort("segv")
     ELSE
       /\ Touch(t)
       /\ out' = [out EXCEPT ![t] = @ \o read_out(keypool, pool_readpos,
                                                  frame[t].rp_length)]
       /\ pool_readpos' = next_readpos(pool_readpos, frame[t].rp_length)
       /\ pool_balance' = pool_balance - frame[t].rp_length
       /\ frame' = [frame EXCEPT ![t].rp_length = length_after_loop]
       /\ Goto(t, "rp_clear")
       /\ UNCHANGED <<rndpool, keypool, pool_writepos, pool_filled,
                      pool_filled_counter, did_initial_extra_seeding,
                      just_mixed, rndstats, failsafe_digest,
                      failsafe_digest_valid, my_pid, cfgvars, lockvars,
                      envvars, ret, proc, nops, g_reads, g_seed_loaded,
                      g_seed_topup, g_reliable, g_prefork, g_keypool_writer>>

\* variant: nothing is cleared
clear_keypool_none(kp) == kp

\* variant: only the first DIGESTLEN bytes are cleared
clear_keypool_digest(kp) ==
  Bytes(DIGESTLEN, 0) \o SubSeq(kp, DIGESTLEN + 1, POOLSIZE + BLOCKLEN)

\* "memset (keypool, 0, POOLSIZE)"
clear_keypool(kp) ==
  Bytes(POOLSIZE, 0) \o SubSeq(kp, POOLSIZE + 1, POOLSIZE + BLOCKLEN)

\* variant: the clamp is missing
clamp_balance_none(b) == b

\* "if (pool_balance < 0) pool_balance = 0"
clamp_balance(b) == IF b < 0 THEN 0 ELSE b

\* the clamp of pool_balance and "Clear the keypool"
RpClear(t) ==
  /\ At(t, "rp_clear")
  /\ IF keypool = NULL THEN Abort("segv")
     ELSE
       /\ Touch(t)
       /\ pool_balance' = clamp_balance(pool_balance)
       /\ keypool' = clear_keypool(keypool)
       /\ Goto(t, "rp_postfork")
       /\ UNCHANGED <<rndpool, pool_writepos, pool_readpos, pool_filled,
                      pool_filled_counter, did_initial_extra_seeding,
                      just_mixed, rndstats, failsafe_digest,
                      failsafe_digest_valid, my_pid, cfgvars, lockvars,
                      envvars, frame, out, ret, proc, nops, g_reads,
                      g_seed_loaded, g_seed_topup, g_reliable, g_prefork,
                      g_keypool_writer>>

\* the exit fork check: "goto retry", or return to randomize, which does
\* "length -= n"
RpPostFork(t) ==
  /\ At(t, "rp_postfork")
  /\ IF fork_detected(cur_pid, frame[t].my_pid2)
     THEN IF ~pool_is_locked THEN Abort("assert")
          ELSE
            \E P \in {fold_new_pid(Cur, cur_pid)} :
                /\ Touch(t)
                /\ Commit(P)
                /\ my_pid' = cur_pid
                /\ Advance(t, P, "rp_retry")
                /\ UNCHANGED <<keypool, pool_readpos,
                               did_initial_extra_seeding, pool_balance,
                               cfgvars, lockvars, envvars, frame, out, ret,
                               nops, g_reads, g_seed_loaded, g_seed_topup,
                               g_prefork, g_keypool_writer>>
     ELSE /\ frame' = [frame EXCEPT ![t].length = @ - frame[t].n]
          /\ Goto(t, "rz_loop")
          /\ UNCHANGED <<poolvars, cfgvars, lockvars, envvars, out, ret,
                         histvars, proc, nops>>

(* ----------------------------------------------------------------------- *)
(* _gcry_rngcsprng_add_bytes                                               *)
(* ----------------------------------------------------------------------- *)
\* the clamping of quality
clamp_quality(q) ==
  IF q = -1 THEN 35 ELSE IF q > 100 THEN 100 ELSE IF q < 0 THEN 0 ELSE q

\* variant: the quality is not looked at
takes_shortcut_len(buflen, quality) == buflen = 0

\* "if (!buflen || quality < 10) return 0"
takes_shortcut(buflen, quality) == buflen = 0 \/ quality < 10

\* variant: the test of buf is missing
rejects_buf_never(has_buf) == FALSE

\* "if (!buf)"
rejects_buf(has_buf) == ~has_buf

\* the call, up to the first lock_pool; has_buf: buf is not NULL
AddBytesCall(t, has_buf, buflen, quality) ==
  /\ Idle(t)
  /\ nops' = nops + 1
  /\ IF rejects_buf(has_buf)
     THEN /\ ret' = [ret EXCEPT ![t] = "GPG_ERR_INV_ARG"]
          /\ frame' = [frame EXCEPT ![t] = [NoFrame EXCEPT
                                              !.has_buf = has_buf,
                                              !.quality = quality]]
          /\ UNCHANGED pc
     ELSE IF takes_shortcut(buflen, clamp_quality(quality))
     THEN /\ ret' = [ret EXCEPT ![t] = "0"]
          /\ frame' = [frame EXCEPT ![t] = [NoFrame EXCEPT
                                              !.has_buf = has_buf,
                                              !.quality = quality]]
          /\ UNCHANGED pc
     ELSE /\ ret' = [ret EXCEPT ![t] = "none"]
          /\ frame' = [frame EXCEPT ![t] = [NoFrame EXCEPT
                                              !.buflen = buflen,
                                              !.has_buf = has_buf,
                                              !.quality = quality]]
          /\ Goto(t, "ab_loop")
  /\ UNCHANGED <<poolvars, cfgvars, lockvars, envvars, out, histvars, proc>>

\* lock_pool in the while loop
AbLock(t) ==
  /\ At(t, "ab_loop")
  /\ lock_pool(t)
  /\ Goto(t, "ab_locked")
  /\ UNCHANGED <<poolvars, cfgvars, envvars, frame, out, ret, histvars, proc,
                 nops>>

\* "if (rndpool) add_randomness (bufptr, nbytes, RANDOM_ORIGIN_EXTERNAL)",
\* unlock_pool, and the loop test / return 0
AbLocked(t) ==
  /\ At(t, "ab_locked")
  /\ IF rndpool # NULL /\ ~pool_is_locked THEN Abort("assert")
     ELSE
       LET nbytes == chunk_length(frame[t].buflen)
           left == frame[t].buflen - nbytes
       IN  \E P \in {IF rndpool # NULL
                     THEN add_randomness(Cur, Bytes(nbytes, EXTERNAL_BYTE),
                                         RANDOM_ORIGIN_EXTERNAL)
                     ELSE Cur} :
           /\ Touch(t)
           /\ Commit(P)
           /\ unlock_pool(t)
           /\ frame' = [frame EXCEPT ![t].buflen = left]
           /\ IF left > 0
              THEN /\ Goto(t, "ab_loop")
                   /\ UNCHANGED ret
              ELSE /\ Goto(t, "idle")
                   /\ ret' = [ret EXCEPT ![t] = "0"]
           /\ UNCHANGED <<keypool, pool_readpos, did_initial_extra_seeding,
                          pool_balance, my_pid, cfgvars, envvars, out, nops,
                          g_reads, g_seed_loaded, g_seed_topup, g_prefork,
                          g_keypool_writer>>

(* ----------------------------------------------------------------------- *)
(* _gcry_rngcsprng_fast_poll                                               *)
(* ----------------------------------------------------------------------- *)
FastPollCall(t) ==
  /\ Idle(t)
  /\ nops' = nops + 1
  /\ lock_pool(t)
  /\ Goto(t, "fp_locked")
  /\ UNCHANGED <<poolvars, cfgvars, envvars, frame, out, ret, histvars, proc>>

\* "if (rndpool) do_fast_random_poll ()" and unlock_pool
FpLocked(t, hw) ==
  /\ At(t, "fp_locked")
  /\ IF rndpool # NULL /\ ~pool_is_locked THEN Abort("assert")
     ELSE
       \E P \in {IF rndpool # NULL THEN do_fast_random_poll(Cur, hw)
                     ELSE Cur} :
           /\ Touch(t)
           /\ Commit(P)
           /\ unlock_pool(t)
           /\ Goto(t, "idle")
           /\ UNCHANGED <<keypool, pool_readpos, did_initial_extra_seeding,
                          pool_balance, my_pid, cfgvars, envvars, frame, out,
                          ret, nops, g_reads, g_seed_loaded, g_seed_topup,
                          g_prefork, g_keypool_writer>>

(* ----------------------------------------------------------------------- *)
(* _gcry_rngcsprng_update_seed_file                                        *)
(* ----------------------------------------------------------------------- *)
UpdateSeedFileCall(t) ==
  /\ Idle(t)
  /\ nops' = nops + 1
  /\ lock_pool(t)
  /\ Goto(t, "us_locked")
  /\ UNCHANGED <<poolvars, cfgvars, envvars, frame, out, ret, histvars, proc>>

\* variant: the update does not look at allow_seed_file_update
may_update_seed_unasked(name, pool, filled, allow) ==
  name /\ pool # NULL /\ filled

\* "if (!seed_file_name || !rndpool || !pool_filled)" return, and
\* "if (!allow_seed_file_update)" return
may_update_seed(name, pool, filled, allow) ==
  name /\ pool # NULL /\ filled /\ allow

\* the body under the lock; written: open, lock, ftruncate and write succeed
UsLocked(t, written) ==
  /\ At(t, "us_locked")
  /\ IF ~may_update_seed(seed_file_name, rndpool, pool_filled,
                         allow_seed_file_update)
     THEN /\ Touch(t)
          /\ unlock_pool(t)
          /\ Goto(t, "idle")
          /\ UNCHANGED <<poolvars, cfgvars, envvars, frame, out, ret, proc,
                         nops, g_reads, g_seed_loaded, g_seed_topup,
                         g_reliable, g_prefork, g_keypool_writer>>
     ELSE IF ~pool_is_locked THEN Abort("assert")
     ELSE
       \E P1 \in {mix_rndpool(Cur)} :
       \E kp2 \in {mix_keypool(derive_keypool(keypool, rndpool), P1)} :
           /\ Touch(t)
           /\ Commit([P1 EXCEPT !.rndstats.mixkey = @ + 1])
           /\ keypool' = kp2
           /\ g_keypool_writer' = "update_seed_file"
           /\ seed_file' = IF written
                           THEN [kind |-> "regular",
                                 data |-> SubSeq(kp2, 1, POOLSIZE)]
                           ELSE seed_file
           /\ unlock_pool(t)
           /\ Goto(t, "idle")
           /\ UNCHANGED <<pool_readpos, did_initial_extra_seeding,
                          pool_balance, my_pid, cfgvars, cur_pid, nforks,
                          frame, out, ret, nops, g_reads, g_seed_loaded,
                          g_seed_topup, g_prefork>>

(* ----------------------------------------------------------------------- *)
(* _gcry_rngcsprng_close_fds                                               *)
(* ----------------------------------------------------------------------- *)
\* variant: the buffers are released but the pointers are kept
xfree_pool_dangling(pool) == pool

\* "xfree (rndpool); xfree (keypool); rndpool = NULL; keypool = NULL;"
xfree_pool(pool) == NULL

CloseCall(t) ==
  /\ Idle(t)
  /\ nops' = nops + 1
  /\ lock_pool(t)
  /\ Goto(t, "cl_locked")
  /\ UNCHANGED <<poolvars, cfgvars, envvars, frame, out, ret, histvars, proc>>

ClLocked(t) ==
  /\ At(t, "cl_locked")
  /\ Touch(t)
  /\ pool_writepos' = 0
  /\ pool_readpos' = 0
  /\ pool_filled' = FALSE
  /\ pool_filled_counter' = 0
  /\ did_initial_extra_seeding' = FALSE
  /\ pool_balance' = 0
  /\ just_mixed' = FALSE
  /\ rndpool' = xfree_pool(rndpool)
  /\ keypool' = xfree_pool(keypool)
  /\ unlock_pool(t)
  /\ Goto(t, "idle")
  /\ g_seed_loaded' = FALSE
  /\ g_seed_topup' = <<>>
  /\ g_reliable' = 0
  /\ g_keypool_writer' = "none"
  /\ UNCHANGED <<rndstats, failsafe_digest, failsafe_digest_valid, my_pid,
                 cfgvars, envvars, frame, out, ret, proc, nops, g_reads,
                 g_prefork>>

(* ----------------------------------------------------------------------- *)
(* Specification                                                           *)
(* ----------------------------------------------------------------------- *)
\* read_seed_file gets as far as reading the file
SeedReadable ==
  /\ ~pool_filled /\ seed_file_name
  /\ seed_file.kind = "regular" /\ Len(seed_file.data) = POOLSIZE

\* the gather module is called in the next step of t
GatherDue(t) ==
  \/ /\ pc[t] = "rp_extra1"
     /\ wants_initial_seeding(frame[t].level, did_initial_extra_seeding)
  \/ /\ pc[t] = "rp_extra2"
     /\ wants_more_seeding(frame[t].level, pool_balance, frame[t].rp_length)
  \/ pc[t] = "rp_fill"
  \/ pc[t] = "rp_seed" /\ SeedReadable

\* outcomes of a gather call: success or hard failure
GatherOks(t) == IF GatherDue(t) THEN BOOLEAN ELSE {TRUE}

Next ==
  \/ \E f \in SeedFiles : SetSeedFile(f)
  \/ EnableQuickGen
  \/ Fork
  \/ \E t \in Threads : \E len \in Lengths(t), lv \in Levels(t) :
       RandomizeCall(t, len, lv)
  \/ \E t \in Threads :
       \E m \in (IF rndpool = NULL THEN GatherModes ELSE {slow_gather_fnc}) :
         RzInitialize(t, m)
  \/ \E t \in Threads : RzLock(t)
  \/ \E t \in Threads : RzLoop(t)
  \/ \E t \in Threads : RpRetry(t)
  \/ \E t \in Threads :
       \E jent \in (IF SeedReadable THEN BOOLEAN ELSE {FALSE}) :
         \E ok \in GatherOks(t) : RpSeed(t, jent, ok)
  \/ \E t \in Threads : \E ok \in GatherOks(t) : RpExtra1(t, ok)
  \/ \E t \in Threads : \E ok \in GatherOks(t) : RpExtra2(t, ok)
  \/ \E t \in Threads : \E ok \in GatherOks(t) : RpFill(t, ok)
  \/ \E t \in Threads, hw \in HwPollSizes : RpFastPoll(t, hw)
  \/ \E t \in Threads : RpPidMix(t)
  \/ \E t \in Threads : RpMix(t)
  \/ \E t \in Threads : RpDerive(t)
  \/ \E t \in Threads : RpMix2(t)
  \/ \E t \in Threads : RpDeliver(t)
  \/ \E t \in Threads : RpClear(t)
  \/ \E t \in Threads : RpPostFork(t)
  \/ \E t \in Threads :
       \E hb \in HasBufs(t), bl \in BufLens(t), q \in Qualities(t) :
         AddBytesCall(t, hb, bl, q)
  \/ \E t \in Threads : AbLock(t)
  \/ \E t \in Threads : AbLocked(t)
  \/ \E t \in Threads : FastPollCall(t)
  \/ \E t \in Threads, hw \in HwPollSizes : FpLocked(t, hw)
  \/ \E t \in Threads : UpdateSeedFileCall(t)
  \/ \E t \in Threads, wr \in BOOLEAN : UsLocked(t, wr)
  \/ \E t \in Threads : CloseCall(t)
  \/ \E t \in Threads : ClLocked(t)

Spec == Init /\ [][Next]_vars

\* A public operation is started by thread t.
StartCall(t) ==
  \/ \E len \in Lengths(t), lv \in Levels(t) : RandomizeCall(t, len, lv)
  \/ \E hb \in HasBufs(t), bl \in BufLens(t), q \in Qualities(t) :
       AddBytesCall(t, hb, bl, q)
  \/ FastPollCall(t)
  \/ UpdateSeedFileCall(t)
  \/ CloseCall(t)

\* Thread t goes on with the operation it is in; every call of the slow
\* gather module succeeds.
Proceed(t) ==
  \/ \E m \in (IF rndpool = NULL THEN GatherModes ELSE {slow_gather_fnc}) :
       RzInitialize(t, m)
  \/ RzLock(t)
  \/ RzLoop(t)
  \/ RpRetry(t)
  \/ \E jent \in (IF SeedReadable THEN BOOLEAN ELSE {FALSE}) :
       RpSeed(t, jent, TRUE)
  \/ RpExtra1(t, TRUE)
  \/ RpExtra2(t, TRUE)
  \/ RpFill(t, TRUE)
  \/ \E hw \in HwPollSizes : RpFastPoll(t, hw)
  \/ RpPidMix(t)
  \/ RpMix(t)
  \/ RpDerive(t)
  \/ RpMix2(t)
  \/ RpDeliver(t)
  \/ RpClear(t)
  \/ RpPostFork(t)
  \/ AbLock(t)
  \/ AbLocked(t)
  \/ \E hw \in HwPollSizes : FpLocked(t, hw)
  \/ \E wr \in BOOLEAN : UsLocked(t, wr)
  \/ ClLocked(t)

\* The runs in which the slow gather module always delivers and the pid
\* never changes.
LiveNext ==
  \/ \E f \in SeedFiles : SetSeedFile(f)
  \/ EnableQuickGen
  \/ \E t \in Threads : StartCall(t)
  \/ \E t \in Threads : Proceed(t)

\* Proceed(t) is enabled: t holds the mutex, or waits for it and it is free
CanProceed(t) ==
  /\ proc = "running"
  /\ \/ pc[t] \in {"rz_initialize", "rz_loop", "ab_locked", "fp_locked",
                   "us_locked", "cl_locked"}
     \/ pc[t] \in {"rp_retry", "rp_seed", "rp_extra1", "rp_extra2", "rp_fill",
                   "rp_pidmix", "rp_mix", "rp_derive", "rp_mix2", "rp_deliver",
                   "rp_clear", "rp_postfork"}
     \/ pc[t] \in {"rz_lock", "ab_loop"} /\ pool_lock = 0

\* the positions of a thread
PcLabels ==
  {"idle", "rz_initialize", "rz_lock", "rz_loop", "rp_retry", "rp_seed",
   "rp_extra1", "rp_extra2", "rp_fill", "rp_pidmix", "rp_mix", "rp_derive",
   "rp_mix2", "rp_deliver", "rp_clear", "rp_postfork", "ab_loop", "ab_locked",
   "fp_locked", "us_locked", "cl_locked"}

\* a step of Proceed(t) as pc shows it: t moves to another position.  Every
\* step of Proceed(t) that does not end the process is one, but for the
\* poll of the fill loop, which stays at rp_fill.
Moves(t) ==
  /\ CanProceed(t)
  /\ \E l \in PcLabels \ {pc[t]} : pc' = [pc EXCEPT ![t] = l]

\* the step of the fill loop: one more random_poll, or the loop is left
PollsOrLeaves(t) ==
  \/ rndstats'.slowpolls # rndstats.slowpolls
  \/ pc'[t] # pc[t]
  \/ proc' # proc

\* The threads are scheduled by the system, and a thread that waits for the
\* mutex gets it once it stays free: a thread that can take a step of its
\* operation eventually takes it.  Outside the fill loop this is weak
\* fairness of the move of t; for a thread in the fill loop it is weak
\* fairness of its step, with the enabling condition written out.
Scheduled(t) ==
  /\ WF_pc(Moves(t) /\ pc[t] # "rp_fill")
  /\ \/ []<>(~(CanProceed(t) /\ pc[t] = "rp_fill"))
     \/ []<><<PollsOrLeaves(t)>>_vars

LiveSpec == Init /\ [][LiveNext]_vars /\ \A t \in Threads : Scheduled(t)

(* ----------------------------------------------------------------------- *)
(* Properties                                                              *)
(* ----------------------------------------------------------------------- *)
\* positions at which the thread holds the pool mutex
LockedPcs ==
  {"rz_initialize", "rz_loop", "rp_retry", "rp_seed", "rp_extra1",
   "rp_extra2", "rp_fill", "rp_pidmix", "rp_mix", "rp_derive", "rp_mix2",
   "rp_deliver", "rp_clear", "rp_postfork", "ab_locked", "fp_locked",
   "us_locked", "cl_locked"}

InPool(t) == pc[t] \in LockedPcs

Max(a, b) == IF a > b THEN a ELSE b

\* C1: under every interleaving of randomize, add_bytes, fast_poll,
\* update_seed_file and close_fds, every access to the pool buffers, cursors
\* and flags is made by the thread holding pool_lock, at most one thread is
\* inside a pool operation, and no gcry_assert (pool_is_locked) fails.
C1_LockDiscipline ==
  /\ ~g_unlocked_access
  /\ proc # "assert"
  /\ \A t, u \in Threads : InPool(t) /\ InPool(u) => t = u
  /\ \A t \in Threads : InPool(t) => pool_lock = t /\ pool_is_locked

\* a thread is inside read_pool while another one is about to call lock_pool
C1_Contention ==
  \E t, u \in Threads :
    /\ t # u /\ pc[t] = "rp_deliver" /\ pool_lock = t
    /\ pc[u] \in {"rz_lock", "ab_loop"}

\* C2: no output byte is copied to the caller's buffer while pool_filled is
\* false: in every step that delivers bytes, pool_filled is true.
C2_FilledAtDelivery ==
  [][\A t \in Threads : Len(out'[t]) > Len(out[t]) => pool_filled]_vars

\* bytes were delivered after the slow-poll loop had to fill the pool
C2_DeliveredAfterFill ==
  \E t \in Threads :
    /\ pc[t] = "rp_clear" /\ Len(out[t]) >= 1 /\ pool_filled
    /\ \E i \in 1..Len(g_reads) : g_reads[i][1] = RANDOM_ORIGIN_SLOWPOLL

\* C3: an extraction restarted by the exit fork check ("goto retry") runs
\* the derivation again for the same request and does not reach the
\* "too many random bits requested" error of the length check.
C3_RetryPassesLengthCheck ==
  \A t \in Threads :
    pc[t] = "rp_seed" /\ frame[t].rp_length = length_after_loop
      => proc # "bug"

\* C4: when the entry fork check of an extraction fires, then before a byte
\* of that extraction is delivered the new pid has been folded in with origin
\* INIT, my_pid has been updated, just_mixed has been cleared and rndpool has
\* been mixed at least once after the fold.
C4_ForkFoldBeforeDelivery ==
  \A t \in Threads :
    pc[t] = "rp_deliver" /\ g_prefork.detected
      => /\ g_prefork.origin = RANDOM_ORIGIN_INIT
         /\ g_prefork.my_pid = frame[t].my_pid2
         /\ my_pid = frame[t].my_pid2
         /\ ~g_prefork.just_mixed
         /\ rndstats.mixrnd > g_prefork.mixrnd

\* the second chunk of a request is about to be delivered in the child
C4_DeliveryAfterFork ==
  \E t \in Threads :
    /\ pc[t] = "rp_deliver" /\ g_prefork.detected
    /\ my_pid = FirstPid + 1 /\ Len(out[t]) = POOLSIZE

\* C5: after every extraction (when read_pool is about to return and after
\* it has returned to randomize) the POOLSIZE bytes of keypool are zero.
C5_KeypoolZeroAfterExtraction ==
  \A t \in Threads :
    (pc[t] = "rp_postfork" \/ (pc[t] = "rz_loop" /\ Len(out[t]) > 0))
      => keypool # NULL /\ IsZero(keypool, POOLSIZE)

\* read_pool has returned 17 bytes that are not all zero
C5_Extracted ==
  \E t \in Threads :
    /\ pc[t] = "rz_loop" /\ Len(out[t]) = 17 /\ ~IsZero(out[t], 17)
    /\ IsZero(keypool, POOLSIZE)

\* C6 (as stated): wherever the pool mutex is free and the buffers are
\* allocated, the POOLSIZE bytes of keypool are zero.
C6_KeypoolZeroWhenUnlocked ==
  pool_lock = 0 /\ keypool # NULL => IsZero(keypool, POOLSIZE)

\* C6 (amended): wherever the pool mutex is free and the buffers are
\* allocated, the POOLSIZE bytes of keypool are zero unless the last write to
\* keypool was made by update_seed_file; only read_pool and update_seed_file
\* write keypool.
C6_KeypoolZeroUnlessSeedUpdate ==
  /\ g_keypool_writer \in {"none", "read_pool", "update_seed_file"}
  /\ pool_lock = 0 /\ keypool # NULL
       => IsZero(keypool, POOLSIZE) \/ g_keypool_writer = "update_seed_file"

\* update_seed_file has returned and left the bytes it wrote in keypool
C6_SeedUpdateLeftKeypool ==
  /\ pool_lock = 0 /\ keypool # NULL
  /\ g_keypool_writer = "update_seed_file"
  /\ ~IsZero(keypool, POOLSIZE)
  /\ seed_file.kind = "regular" /\ seed_file.data = SubSeq(keypool, 1, POOLSIZE)

C8_FilledMeansReliableOrSeed ==
  pool_filled => g_reliable >= POOLSIZE \/ g_seed_loaded

\* the pool was filled by slow polls, without a seed file
C8_FilledByPolls ==
  /\ pool_filled /\ ~g_seed_loaded /\ g_reliable >= POOLSIZE
  /\ rndstats.slowpolls >= 1

\* a step that folds in bytes of origin INIT, EXTERNAL or FASTPOLL only: the
\* body of add_bytes and of fast_poll, and in read_pool the fork checks, the
\* fast poll and the pid fold
UnreliableStep ==
  \E t \in Threads :
    /\ pc'[t] # pc[t]
    /\ \/ pc[t] \in {"ab_locked", "fp_locked", "rp_retry", "rp_pidmix",
                     "rp_postfork"}
       \/ pc[t] = "rp_fill" /\ ~must_poll(pool_filled)

\* C9: accumulations of origin INIT, EXTERNAL or FASTPOLL leave pool_filled,
\* pool_filled_counter and pool_balance unchanged, whatever their size and
\* the write position, wraps of the pool included.
C9_UnreliableKeepsEstimates ==
  [][UnreliableStep =>
       /\ pool_filled' = pool_filled
       /\ pool_filled_counter' = pool_filled_counter
       /\ pool_balance' = pool_balance]_vars

\* add_bytes has wrapped a pool that is not filled
C9_ExternalWrappedUnfilled ==
  \E t \in Threads :
    /\ pc[t] = "idle" /\ ret[t] = "0"
    /\ rndpool # NULL /\ ~pool_filled /\ pool_filled_counter = 0
    /\ rndstats.addbytes >= POOLSIZE /\ rndstats.mixrnd >= 1

IsExtraRead(r) ==
  r[1] = RANDOM_ORIGIN_EXTRAPOLL \/ r[3] = GCRY_VERY_STRONG_RANDOM

\* C10: the first VERY_STRONG extraction (did_initial_extra_seeding false on
\* entry, level not lowered by quick_test) makes exactly one read of origin
\* EXTRAPOLL, of max(length, 16) bytes at level VERY_STRONG, and no
\* second top-up; afterwards did_initial_extra_seeding is true and
\* pool_balance = max(length, 16) - length >= 0.
C10_FirstVeryStrong ==
  \A t \in Threads :
    /\ pc[t] = "rp_postfork"
    /\ frame[t].level = GCRY_VERY_STRONG_RANDOM /\ ~frame[t].did0
    => /\ SelectSeq(g_reads, IsExtraRead)
            = << <<RANDOM_ORIGIN_EXTRAPOLL, Max(frame[t].n, 16),
                   GCRY_VERY_STRONG_RANDOM>> >>
       /\ did_initial_extra_seeding
       /\ pool_balance = Max(frame[t].n, 16) - frame[t].n
       /\ pool_balance >= 0

\* a first VERY_STRONG extraction of one byte has ended with 15 bytes of
\* balance
C10_OneByteVeryStrong ==
  \E t \in Threads :
    /\ pc[t] = "rp_postfork"
    /\ frame[t].level = GCRY_VERY_STRONG_RANDOM /\ ~frame[t].did0
    /\ frame[t].n = 1 /\ pool_balance = 15 /\ Len(out[t]) = 1

\* positions inside read_pool
ReadPoolPcs ==
  {"rp_retry", "rp_seed", "rp_extra1", "rp_extra2", "rp_fill", "rp_pidmix",
   "rp_mix", "rp_derive", "rp_mix2", "rp_deliver", "rp_clear", "rp_postfork"}

\* C11: with quick_test enabled every VERY_STRONG request is serviced as
\* STRONG: read_pool runs at a level of at most STRONG, no read of origin
\* EXTRAPOLL is made, did_initial_extra_seeding stays false and pool_balance
\* is never credited (it never rises above 0).
C11_QuickTestNoExtraPoll ==
  quick_test =>
    /\ ~did_initial_extra_seeding
    /\ pool_balance <= 0
    /\ \A i \in 1..Len(g_reads) : g_reads[i][1] # RANDOM_ORIGIN_EXTRAPOLL
    /\ \A t \in Threads :
         pc[t] \in ReadPoolPcs => frame[t].level <= GCRY_STRONG_RANDOM

\* a VERY_STRONG request has been served with quick_test enabled
C11_QuickVeryStrongServed ==
  \E t \in Threads :
    /\ quick_test /\ pc[t] = "rp_postfork"
    /\ frame[t].level0 = GCRY_VERY_STRONG_RANDOM /\ Len(out[t]) = 17

\* C12: wherever the pool mutex is free, 0 <= pool_writepos < POOLSIZE and
\* 0 <= pool_readpos < POOLSIZE.
C12_CursorsInRange ==
  pool_lock = 0 =>
    /\ 0 <= pool_writepos /\ pool_writepos < POOLSIZE
    /\ 0 <= pool_readpos /\ pool_readpos < POOLSIZE

\* both cursors have wrapped: POOLSIZE + 1 bytes were delivered and the mutex
\* is free again
C12_CursorsWrapped ==
  /\ pool_lock = 0 /\ pool_readpos = 1 /\ pool_writepos > 0
  /\ rndstats.mixrnd >= 1
  /\ \E t \in Threads : Len(out[t]) = POOLSIZE + 1

\* C13: pool_balance >= 0 whenever a public operation is entered: it is
\* negative only between the delivery loop and the clamp of read_pool, where
\* the delivering thread holds the mutex.
C13_BalanceNonNegative ==
  pool_balance < 0 =>
    \E t \in Threads : pc[t] = "rp_clear" /\ pool_lock = t

\* a STRONG extraction, which drives pool_balance below 0, has returned
C13_StrongExtractionDone ==
  /\ pool_lock = 0 /\ pool_balance = 0 /\ rndstats.getbytes1 >= 17
  /\ \E t \in Threads : pc[t] = "idle" /\ Len(out[t]) = 17

\* the step is the call of add_bytes by thread t, up to its return or its
\* first lock_pool
AddBytesStep(t) ==
  /\ Idle(t) /\ nops' = nops + 1 /\ nforks' = nforks
  /\ pc'[t] \in {"idle", "ab_loop"}

\* add_bytes returns 0 at once, without locking and without touching the
\* pool, its write position, just_mixed or the statistics
ShortcutTaken(t) ==
  /\ pc'[t] = "idle" /\ ret'[t] = "0"
  /\ UNCHANGED <<rndpool, pool_writepos, just_mixed, rndstats, lockvars>>

\* C14 (as stated): for a non-null buffer and every quality below 10,
\* negative values included, add_bytes takes the shortcut.
C14_LowQualityShortcut ==
  [][\A t \in Threads :
       AddBytesStep(t) /\ frame'[t].has_buf /\ frame'[t].quality < 10
         => ShortcutTaken(t)]_vars

\* C14 (amended): for a non-null buffer and every quality below 10 other
\* than -1 (goodness not known, taken as 35), add_bytes takes the shortcut.
C14_LowKnownQualityShortcut ==
  [][\A t \in Threads :
       /\ AddBytesStep(t) /\ frame'[t].has_buf
       /\ frame'[t].quality < 10 /\ frame'[t].quality # -1
       => ShortcutTaken(t)]_vars

\* add_bytes has returned 0 for a negative quality while the pool exists
C14_NegativeQualityDropped ==
  \E t \in Threads :
    /\ pc[t] = "idle" /\ ret[t] = "0" /\ rndpool # NULL
    /\ frame[t].has_buf /\ frame[t].quality = -5

\* C15: add_bytes called with a null buffer returns GPG_ERR_INV_ARG for every
\* buflen and every quality, and changes no pool state and no statistics.
C15_NullBufferRejected ==
  [][\A t \in Threads :
       AddBytesStep(t) /\ ~frame'[t].has_buf
         => /\ pc'[t] = "idle" /\ ret'[t] = "GPG_ERR_INV_ARG"
            /\ UNCHANGED <<poolvars, cfgvars, lockvars>>]_vars

\* a null buffer of low quality has been rejected while the pool exists
C15_NullLowQualityRejected ==
  \E t \in Threads :
    /\ pc[t] = "idle" /\ ret[t] = "GPG_ERR_INV_ARG" /\ rndpool # NULL
    /\ ~frame[t].has_buf /\ frame[t].quality = 5

\* randomize has called read_pool for chunks of min(POOLSIZE, length left)
\* bytes, all but the last of POOLSIZE bytes, which add up to the request;
\* for length 0 read_pool is not called and nothing is written
ChunksAddUp(t) ==
  /\ pc[t] \in ReadPoolPcs =>
       /\ frame[t].n = Min(POOLSIZE, frame[t].length) /\ frame[t].n >= 1
       /\ Len(out[t]) \in {frame[t].length0 - frame[t].length,
                            frame[t].length0 - frame[t].length + frame[t].n}
  /\ pc[t] = "rz_loop" =>
       /\ Len(out[t]) + frame[t].length = frame[t].length0
       /\ frame[t].length > 0 => Len(out[t]) % POOLSIZE = 0
  /\ pc[t] \in {"rz_initialize", "rz_lock", "rz_loop"} \cup ReadPoolPcs
       /\ frame[t].length0 = 0
       => pc[t] \notin ReadPoolPcs /\ out[t] = <<>>

\* C16: randomize calls read_pool ceil(L/POOLSIZE) times with chunks of at
\* most POOLSIZE bytes that add up to L, so that the length check of
\* read_pool ("too many random bits requested") never fires; for L = 0
\* read_pool is not called and no byte is written.
C16_ChunksNeverOversize ==
  \A t \in Threads :
    /\ ChunksAddUp(t)
    /\ ~(pc[t] = "rp_seed" /\ proc = "bug")

\* C17: pool_readpos is not reset between extractions: the delivery of n
\* bytes started at pool_readpos = r ends at (r + n) mod POOLSIZE and output
\* byte j is keypool[(r + j) mod POOLSIZE]; no step other than the delivery
\* and close_fds changes pool_readpos.
C17_ReadposWalks ==
  [][\A t \in Threads :
       IF pc[t] = "rp_deliver" /\ pc'[t] = "rp_clear"
       THEN /\ pool_readpos' = (pool_readpos + frame[t].n) % POOLSIZE
            /\ Len(out'[t]) = Len(out[t]) + frame[t].n
            /\ \A j \in 0..(frame[t].n - 1) :
                 out'[t][Len(out[t]) + j + 1]
                   = keypool[((pool_readpos + j) % POOLSIZE) + 1]
       ELSE pool_readpos' # pool_readpos
              => pc[t] \in {"rp_deliver", "cl_locked"} \/ pool_lock # t]_vars

\* a second extraction has delivered from where the first one stopped
C17_SecondExtractionContinues ==
  \E t \in Threads :
    /\ pc[t] = "rp_clear" /\ pool_readpos = 18
    /\ Len(out[t]) \in {1, 17}

\* the step of thread t that runs the body of close_fds
CloseStep(t) == pc[t] = "cl_locked" /\ pc'[t] = "idle"

\* what close_fds leaves behind, the flag of the failsafe digest aside
ClosedState ==
  /\ pool_writepos' = 0 /\ pool_readpos' = 0
  /\ pool_filled' = FALSE /\ pool_filled_counter' = 0
  /\ did_initial_extra_seeding' = FALSE
  /\ pool_balance' = 0 /\ just_mixed' = FALSE
  /\ rndpool' = NULL /\ keypool' = NULL
  /\ proc' = "running"
  /\ g_unlocked_access' = g_unlocked_access

\* C18 as stated: after close every flag and cursor is zero, the flag
\* failsafe_digest_valid included, and both buffers are freed; the same
\* holds, without a fatal error, when the pool was never allocated or is
\* already closed.
C18_CloseZeroesAll ==
  [][\A t \in Threads :
       CloseStep(t) => ClosedState /\ failsafe_digest_valid' = FALSE]_vars

\* C18, amended: after close every flag and cursor is zero and both buffers
\* are freed, while failsafe_digest_valid and failsafe_digest, statics of
\* mix_pool, keep their values; close is safe on a pool that was never
\* allocated or is already closed.
C18_CloseZeroesAllButFailsafe ==
  [][\A t \in Threads :
       CloseStep(t) =>
         /\ ClosedState
         /\ failsafe_digest_valid' = failsafe_digest_valid
         /\ failsafe_digest' = failsafe_digest]_vars

\* a pool that had been mixed was closed
C18_ClosedAfterMix ==
  /\ rndpool = NULL /\ keypool = NULL /\ failsafe_digest_valid
  /\ pool_lock = 0 /\ proc = "running"
  /\ \A t \in Threads : pc[t] = "idle"

\* the step of thread t that runs the body of update_seed_file
UpdateStep(t) == pc[t] = "us_locked" /\ pc'[t] = "idle"

\* C19: update_seed_file writes the seed file only when pool_filled and
\* allow_seed_file_update hold, a name is set and the pool is allocated;
\* otherwise it returns with both pools, the cursors, the mix counters and
\* the file untouched; what it writes is the POOLSIZE bytes of keypool,
\* which is then the mixed image of rndpool + ADD_VALUE.  No other call
\* writes the file.
C19_SeedWrittenOnlyWhenAllowed ==
  [][/\ \A t \in Threads :
          UpdateStep(t) =>
            IF pool_filled /\ allow_seed_file_update /\ seed_file_name
               /\ rndpool # NULL
            THEN seed_file' # seed_file =>
                   /\ seed_file'.kind = "regular"
                   /\ Len(seed_file'.data) = POOLSIZE
                   /\ seed_file'.data = SubSeq(keypool', 1, POOLSIZE)
                   /\ keypool' = mix_keypool(derive_keypool(keypool, rndpool),
                                             mix_rndpool(Cur))
                   /\ rndstats'.mixrnd = rndstats.mixrnd + 1
                   /\ rndstats'.mixkey = rndstats.mixkey + 1
            ELSE UNCHANGED <<rndpool, keypool, pool_writepos, pool_readpos,
                             rndstats, just_mixed, failsafe_digest,
                             failsafe_digest_valid, seed_file>>
     /\ seed_file' # seed_file /\ seed_file_name
          => \E t \in Threads : UpdateStep(t)]_vars

\* update_seed_file has replaced the seed file by the bytes of keypool
C19_SeedFileWritten ==
  /\ g_keypool_writer = "update_seed_file" /\ pool_lock = 0
  /\ pool_filled /\ allow_seed_file_update /\ seed_file_name
  /\ rndstats.mixkey >= 2
  /\ seed_file.kind = "regular"
  /\ seed_file.data = Tup(keypool, POOLSIZE)
  /\ seed_file.data # Bytes(POOLSIZE, 0)

\* the seed file is registered and is missing, unopenable, not a regular
\* file, empty or of a size other than POOLSIZE
SeedSoftFailure ==
  /\ seed_file_name
  /\ \/ seed_file.kind \in {"missing", "unopenable", "notregular"}
     \/ seed_file.kind = "regular" /\ Len(seed_file.data) # POOLSIZE

\* the missing and the empty case
SeedMissingOrEmpty ==
  \/ seed_file.kind = "missing"
  \/ seed_file.kind = "regular" /\ seed_file.data = <<>>

\* thread t is about to call read_seed_file
AtReadSeed(t) ==
  /\ pc[t] = "rp_seed" /\ pool_lock = t /\ proc = "running"
  /\ ~pool_filled /\ frame[t].rp_length <= POOLSIZE

\* positions of read_pool after the fill loop
FilledPcs == {"rp_pidmix", "rp_mix", "rp_derive", "rp_mix2", "rp_deliver",
              "rp_clear", "rp_postfork"}

\* C20: a seed file that is missing, empty, of the wrong size, not regular
\* or unopenable is not loaded and does not end the process; read_seed_file
\* leaves rndpool, pool_writepos, pool_filled and pool_filled_counter alone;
\* allow_seed_file_update becomes true for a missing or empty file and is
\* unchanged otherwise; the extraction goes on to the fill loop, and past it
\* the pool is filled by POOLSIZE bytes from the slow gather module (the
\* polls of the fill loop or the extra seeding), never by the seed or its
\* forced read.
C20_SeedSoftFailure ==
  [][\A t \in Threads :
       /\ AtReadSeed(t) /\ SeedSoftFailure =>
            /\ proc' = "running"
            /\ pc'[t] # pc[t] =>
                 /\ pc'[t] = "rp_extra1"
                 /\ UNCHANGED <<rndpool, pool_writepos, pool_filled,
                                pool_filled_counter, g_seed_loaded, g_reads>>
                 /\ allow_seed_file_update' =
                      IF SeedMissingOrEmpty THEN TRUE
                      ELSE allow_seed_file_update
       /\ pc'[t] \in FilledPcs /\ SeedSoftFailure' =>
            /\ pool_filled' /\ ~g_seed_loaded'
            /\ g_reliable' >= POOLSIZE
            /\ \A i \in 1..Len(g_reads') :
                 g_reads'[i][1] \in {RANDOM_ORIGIN_SLOWPOLL,
                                     RANDOM_ORIGIN_EXTRAPOLL}]_vars

\* an extraction has completed with a seed file of the wrong size
C20_CompletedDespiteBadSeed ==
  \E t \in Threads :
    /\ pc[t] = "idle" /\ Len(out[t]) = 17 /\ proc = "running"
    /\ seed_file_name /\ seed_file.kind = "regular"
    /\ Len(seed_file.data) = 1
    /\ pool_filled /\ ~allow_seed_file_update /\ ~g_seed_loaded

\* C21: just_mixed is true only if no byte was folded into rndpool since the
\* last mix of rndpool: a step that folds bytes in and does not end on the
\* wrap (pool_writepos is not 0 afterwards, so its last byte came after the
\* last mix) leaves just_mixed false.
C21_JustMixedMeansNothingAdded ==
  [][rndstats'.addbytes > rndstats.addbytes /\ pool_writepos' # 0
       => ~just_mixed']_vars

\* a step in which add_randomness sets pool_filled (no seed file was loaded)
FilledByAccumulator == ~pool_filled /\ pool_filled' /\ ~g_seed_loaded'

\* a step that runs one random_poll whose module hands over POOLSIZE bytes in
\* one callback
WholePoolPoll ==
  /\ proc' = "running"
  /\ rndstats'.slowpolls = rndstats.slowpolls + 1
  /\ rndstats'.naddbytes = rndstats.naddbytes + 1
  /\ rndstats'.addbytes = rndstats.addbytes + POOLSIZE

\* C22: when add_randomness sets pool_filled, pool_filled_counter is the
\* number of bytes of origin >= SLOWPOLL folded in since the start or the
\* last close (the bytes of the same callback that follow the wrap, which
\* are the pool_writepos bytes at the start of the pool, not counted); and a
\* single callback of POOLSIZE bytes of origin SLOWPOLL sets pool_filled
\* from every pool_writepos.
C22_CounterIsReliableTotal ==
  [][/\ FilledByAccumulator
          => pool_filled_counter' = g_reliable' - pool_writepos'
     /\ ~pool_filled /\ WholePoolPoll => pool_filled']_vars

\* positions inside _gcry_rngcsprng_randomize
RandomizePcs == {"rz_initialize", "rz_lock", "rz_loop"} \cup ReadPoolPcs

\* C23: when every call of the slow gather module delivers and the pid does
\* not change, every extraction terminates: the fill loop is left after
\* finitely many polls and the call returns.
C23_ExtractionTerminates ==
  \A t \in Threads : (pc[t] \in RandomizePcs) ~> (pc[t] = "idle")

\* thread t issues a read of the slow gather module in this step
ReadIssued(t) == pool_lock = t /\ Len(g_reads') > Len(g_reads)

\* the request of the read issued in this step: <<origin, length, level>>
IssuedRead == g_reads'[Len(g_reads')]

\* the read issued is a top-up: origin EXTRAPOLL, level VERY_STRONG
IsTopUp(rd) ==
  rd[1] = RANDOM_ORIGIN_EXTRAPOLL /\ rd[3] = GCRY_VERY_STRONG_RANDOM

\* C24 as stated: the seed-on-demand step, its slow-poll loop included, is
\* over before any top-up: no read with origin EXTRAPOLL and level
\* VERY_STRONG is issued while pool_filled is false.
C24_TopUpOnlyWhenFilled ==
  [][\A t \in Threads :
       ReadIssued(t) /\ IsTopUp(IssuedRead) => pool_filled]_vars

\* C24, amended: the read of the seed file is over before any top-up, and
\* the slow-poll loop comes after the top-up.  A read with origin EXTRAPOLL
\* and level VERY_STRONG is issued only between read_seed_file and the
\* loop, with no poll of the loop before it in the extraction, whether or
\* not pool_filled is true; the polls of the loop are issued only while
\* pool_filled is false.
C24_TopUpBeforeFillLoop ==
  [][\A t \in Threads :
       ReadIssued(t) =>
         /\ IsTopUp(IssuedRead) =>
              /\ pc[t] \in {"rp_extra1", "rp_extra2"}
              /\ \A i \in 1..Len(g_reads) :
                   g_reads[i][1] # RANDOM_ORIGIN_SLOWPOLL
         /\ IssuedRead[1] = RANDOM_ORIGIN_SLOWPOLL =>
              pc[t] = "rp_fill" /\ ~pool_filled
         /\ pc[t] = "rp_seed" => IssuedRead[1] = SeedTopupOrigin]_vars

\* a top-up was requested on an unfilled pool and the loop then filled it
C24_ToppedUpThenFilled ==
  /\ pool_filled /\ ~g_seed_loaded /\ Len(g_reads) >= 2
  /\ IsTopUp(g_reads[1])
  /\ g_reads[Len(g_reads)][1] = RANDOM_ORIGIN_SLOWPOLL

\* thread t goes from position a to another position
Leaves(t, a) == pc[t] = a /\ pc'[t] # a

\* keypool[0..POOLWORDS) is rndpool + ADD_VALUE, word by word
DerivedFrom(kp, src) ==
  \A i \in 1..(POOLWORDS * SIZEOF_UNSIGNED_LONG) :
    kp[i] = (src[i] + ADD_VALUE_BYTE + AddCarry(src, i)) % 256

\* C25: read_pool goes through fast poll, pid fold, mix of rndpool unless
\* just_mixed, derivation of keypool, mix of rndpool, mix of keypool,
\* delivery and clearing of keypool, in this order.  The bytes delivered are
\* those of the mixed keypool, which nothing touches between its mix and
\* the delivery, and every delivery comes right after a mix of rndpool.
C25_ExtractionOrder ==
  [][\A t \in Threads :
       /\ Leaves(t, "rp_fill") =>
            /\ pc'[t] = "rp_pidmix"
            /\ rndstats'.fastpolls = rndstats.fastpolls + 1
       /\ Leaves(t, "rp_pidmix") =>
            /\ pc'[t] = "rp_mix"
            /\ rndstats'.addbytes = rndstats.addbytes + SIZEOF_PID_T
            /\ rndstats'.naddbytes = rndstats.naddbytes + 1
       /\ Leaves(t, "rp_mix") =>
            /\ pc'[t] = "rp_derive"
            /\ rndstats'.mixrnd
                 = rndstats.mixrnd + (IF just_mixed THEN 0 ELSE 1)
            /\ just_mixed => rndpool' = rndpool
       /\ Leaves(t, "rp_derive") =>
            /\ pc'[t] = "rp_mix2"
            /\ rndpool' = rndpool
            /\ DerivedFrom(keypool', rndpool)
       /\ Leaves(t, "rp_mix2") =>
            /\ pc'[t] = "rp_deliver"
            /\ rndstats'.mixrnd = rndstats.mixrnd + 1
            /\ rndstats'.mixkey = rndstats.mixkey + 1
            /\ rndpool' = mix_pool(rndpool, TRUE, failsafe_digest,
                                   failsafe_digest_valid).pool
            /\ keypool' = mix_pool(keypool, FALSE, failsafe_digest',
                                   failsafe_digest_valid').pool
       /\ pc[t] = "rp_deliver" =>
            /\ keypool' = keypool /\ rndpool' = rndpool
            /\ pc'[t] \in {"rp_deliver", "rp_clear"}
            /\ Leaves(t, "rp_deliver") =>
                 \A j \in (Len(out[t]) + 1)..Len(out'[t]) :
                   \E i \in 1..POOLSIZE : out'[t][j] = keypool[i]
       /\ Leaves(t, "rp_clear") =>
            /\ pc'[t] = "rp_postfork"
            /\ IsZero(keypool', POOLSIZE)
            /\ rndpool' = rndpool]_vars

\* two extractions were made, each with its own mixes
C25_TwoExtractions ==
  \E t \in Threads :
    /\ pc[t] = "rp_postfork" /\ Len(out[t]) = POOLSIZE + 1
    /\ rndstats.mixkey = 2 /\ rndstats.mixrnd >= 4
    /\ IsZero(keypool, POOLSIZE)

\* a step that makes exactly one call of add_randomness on an allocated pool
OneAdd ==
  /\ proc = "running" /\ proc' = "running"
  /\ rndpool # NULL
  /\ rndstats'.naddbytes = rndstats.naddbytes + 1

\* the add of the new pid in the fork checks of read_pool, each followed by
\* "just_mixed = 0" in the same step
AfterForkDetected ==
  \E t \in Threads : pc[t] \in {"rp_retry", "rp_postfork"} /\ pool_lock = t

\* its length
AddedLength == rndstats'.addbytes - rndstats.addbytes

\* pool with byte j of buf XORed into index (w + j) mod POOLSIZE, j < Len(buf)
XorFolded(pool, w, buf) ==
  [i \in 1..(POOLSIZE + BLOCKLEN) |->
     IF /\ i <= POOLSIZE
        /\ (i - 1 - w + POOLSIZE) % POOLSIZE < Len(buf)
     THEN Xor8(pool[i], buf[((i - 1 - w + POOLSIZE) % POOLSIZE) + 1])
     ELSE pool[i]]

PoolBytes(buf) == SubSeq(buf, 1, POOLSIZE) \o Bytes(BLOCKLEN, 0)

\* mix_pool applied to the pool bytes alone: no failsafe digest, scratch clear
MixOfBytes(buf) ==
  SubSeq(mix_pool(PoolBytes(buf), FALSE, Bytes(DIGESTLEN, 0), FALSE).pool,
         1, POOLSIZE)

\* a thread is about to run mix_pool (rndpool); mix_pool (keypool)
AtBothMixes == \E t \in Threads : pc[t] = "rp_mix2" /\ pool_lock = t

\* C27 as stated: mix_pool is a function of the POOLSIZE pool bytes alone, so
\* the mix of rndpool gives what the mix of the same bytes gives in any
\* buffer and after any earlier mixes.
C27_MixIsPure ==
  AtBothMixes /\ rndpool # NULL =>
    \A r \in {mix_pool(rndpool, TRUE, failsafe_digest,
                       failsafe_digest_valid).pool} :
      SubSeq(r, 1, POOLSIZE) = MixOfBytes(rndpool)

\* C27 as the code has it: the mix of keypool is a function of its POOLSIZE
\* bytes alone, the mix of rndpool a function of its POOLSIZE bytes and of
\* failsafe_digest and failsafe_digest_valid, and it is the function of the
\* bytes alone while no digest is valid (the first mix of the process).
C27_MixIsPureGivenDigest ==
  [][/\ \A t \in Threads :
          Leaves(t, "rp_mix2") /\ proc' = "running" =>
            /\ \A k \in {MixOfBytes(keypool)} :
                 SubSeq(keypool', 1, POOLSIZE) = k
            /\ \A r \in {mix_pool(PoolBytes(rndpool), TRUE, failsafe_digest,
                                    failsafe_digest_valid).pool} :
                 SubSeq(rndpool', 1, POOLSIZE) = SubSeq(r, 1, POOLSIZE)
     /\ \A t \in Threads :
          /\ pc[t] = "ab_locked" /\ pool_lock = t /\ OneAdd
          /\ AddedLength > 0 /\ pool_writepos' = 0
          /\ ~failsafe_digest_valid
          => \A buf \in {Bytes(AddedLength, EXTERNAL_BYTE)} :
             \A folded \in {XorFolded(rndpool, pool_writepos, buf)} :
               SubSeq(rndpool', 1, POOLSIZE) = MixOfBytes(folded)]_vars

\* both pools were mixed, rndpool with a digest of its previous mix
C27_BothPoolsMixed ==
  \E t \in Threads :
    /\ pc[t] = "rp_deliver" /\ pool_lock = t
    /\ rndstats.mixkey = 1 /\ rndstats.mixrnd >= 2
    /\ failsafe_digest_valid /\ failsafe_digest # Bytes(DIGESTLEN, 0)

\* the DIGESTLEN bytes of buf at offset n * DIGESTLEN
DigestAt(buf, n) == SubSeq(buf, n * DIGESTLEN + 1, (n + 1) * DIGESTLEN)

\* the BLOCKLEN bytes at offset p, wrapping at POOLSIZE, of the pool as it is
\* when iteration n starts: the digests written so far are those of the
\* result r, the bytes from n * DIGESTLEN on are still those of the input x
WindowAt(x, r, n, p) ==
  Tup([i \in 1..BLOCKLEN |->
         IF (p + i - 1) % POOLSIZE < n * DIGESTLEN
         THEN r[((p + i - 1) % POOLSIZE) + 1]
         ELSE x[((p + i - 1) % POOLSIZE) + 1]],
      BLOCKLEN)

\* r is what the loop of mix_pool makes of x when iteration n hashes the
\* block at offset (n - back) * DIGESTLEN into pool[n * DIGESTLEN ..), and
\* the scratch area ends as the last digest followed by the rest of the last
\* block
LoopResult(x, r, back) ==
  /\ Len(r) = POOLSIZE + BLOCKLEN
  /\ \A n \in 1..(POOLBLOCKS - 1) :
       DigestAt(r, n) = sha1_mixblock(DigestAt(r, n - 1),
                                      WindowAt(x, r, n, (n - back) * DIGESTLEN))
  /\ SubSeq(r, POOLSIZE + 1, POOLSIZE + DIGESTLEN) = DigestAt(r, POOLBLOCKS - 1)
  /\ SubSeq(r, POOLSIZE + DIGESTLEN + 1, POOLSIZE + BLOCKLEN)
       = SubSeq(WindowAt(x, r, POOLBLOCKS - 1,
                         (POOLBLOCKS - 1 - back) * DIGESTLEN),
                DIGESTLEN + 1, BLOCKLEN)

\* thread t runs mix_pool (keypool)
MixesKeypool(t) == Leaves(t, "rp_mix2") /\ proc' = "running"

\* C28 as stated: iteration n of the loop of mix_pool hashes the block that
\* starts at p = n * DIGESTLEN, wrapping at POOLSIZE, and writes the digest
\* to pool[p .. p + DIGESTLEN); the writes stay in the pool and its scratch
\* area.
C28_BlockReadAtP ==
  [][\A t \in Threads : MixesKeypool(t) => LoopResult(keypool, keypool', 0)]_vars

\* C28 as the code has it: iteration n hashes the block that starts at
\* p - DIGESTLEN = (n - 1) * DIGESTLEN, wrapping at POOLSIZE, and writes the
\* digest to pool[p .. p + DIGESTLEN); the writes stay in the pool and its
\* scratch area.
C28_BlockReadBehindP ==
  [][\A t \in Threads : MixesKeypool(t) => LoopResult(keypool, keypool', 1)]_vars

\* keypool was mixed: its scratch area starts with the digest of the last
\* iteration, which is also the last DIGESTLEN bytes of the pool
C28_KeypoolMixed ==
  \E t \in Threads :
    /\ pc[t] = "rp_deliver" /\ pool_lock = t /\ rndstats.mixkey >= 1
    /\ SubSeq(keypool, POOLSIZE + 1, POOLSIZE + DIGESTLEN)
         = DigestAt(keypool, POOLBLOCKS - 1)
    /\ ~IsZero(keypool, POOLSIZE)

\* C29: whatever the interleaving of randomize, add_bytes, fast_poll,
\* update_seed_file and close_fds, rndpool and keypool are allocated whenever
\* add_randomness, mix_pool or read_pool goes through them: no thread ends
\* the process by reading or writing through a null pool pointer.
C29_NoNullDereference == proc # "segv"

\* thread t is in read_pool at level 2 and quick_test is off
VeryStrongAt(t) ==
  /\ pool_lock = t /\ pc[t] \in ReadPoolPcs
  /\ frame[t].level = GCRY_VERY_STRONG_RANDOM /\ ~quick_test

\* C30: when a level 2 read_pool of length L comes to copy the bytes out,
\* pool_balance >= L, and the copy leaves it at pool_balance - L >= 0; every
\* EXTRAPOLL request of the extraction is for at least L minus the balance
\* it found (negative counted as 0) and is credited in full.
C30_BalanceCoversRequest ==
  [][\A t \in Threads :
       VeryStrongAt(t) /\ proc' = "running" =>
         /\ pc[t] = "rp_deliver" =>
              /\ pool_balance >= frame[t].rp_length
              /\ frame[t].rp_length <= POOLSIZE
         /\ Leaves(t, "rp_deliver") =>
              /\ pool_balance' = pool_balance - frame[t].rp_length
              /\ pool_balance' >= 0
         /\ ReadIssued(t) /\ IssuedRead[1] = RANDOM_ORIGIN_EXTRAPOLL =>
              /\ IssuedRead[2] >= frame[t].rp_length
                                    - (IF pc[t] = "rp_extra1" \/ pool_balance < 0
                                       THEN 0 ELSE pool_balance)
              /\ pool_balance' = (IF pc[t] = "rp_extra1" \/ pool_balance < 0
                                  THEN 0 ELSE pool_balance) + IssuedRead[2]
              /\ pool_balance' >= frame[t].rp_length]_vars

\* the second chunk of a level 2 request of POOLSIZE + 1 bytes is about to
\* be copied out: the first chunk used the balance up, the top-up restored it
C30_ToppedUpForSecondChunk ==
  \E t \in Threads :
    /\ VeryStrongAt(t) /\ pc[t] = "rp_deliver" /\ proc = "running"
    /\ Len(out[t]) = POOLSIZE /\ frame[t].rp_length = 1
    /\ pool_balance = 1
    /\ Len(g_reads) >= 1 /\ IsTopUp(g_reads[Len(g_reads)])

====
